---- MODULE Spec2Model ----
(***************************************************************************)
(* PostCodeMon core: ToolWrapper.execute_tool (validation, dry run, retry  *)
(* loop around ProcessManager.execute_tool) and ToolWrapper.execute_batch  *)
(* (worker pool, as_completed collection, fail_fast cancellation).         *)
(*                                                                         *)
(* Strings of the program are modelled as tokens; a command line or an     *)
(* output text is the sequence of its space-separated tokens.              *)
(***************************************************************************)
EXTENDS Integers, Sequences, FiniteSets, TLC

VARIABLES
    config,            \* ToolWrapper.config / ConfigManager._config (WrapperConfig)
    tool_name,         \* ToolWrapper.tool_name, the wrapper's default tool
    files,             \* paths for which os.path.exists is true
    calls,             \* one record per ToolWrapper.execute_tool invocation
    active_processes,  \* ProcessManager.active_processes: key and Popen.pid
    next_pid,          \* pid the next subprocess.Popen will get
    batch,             \* state of one ToolWrapper.execute_batch invocation
    children,          \* the child processes started by Popen, by pid
    pm,                \* one record per ProcessManager.execute_tool invocation
    control,           \* what the thread calling kill_process,
                       \* get_active_processes and shutdown got last
    config_files,      \* the configuration file at each search path
    environ,           \* os.environ, the POSTCODEMON_ variables
    config_manager,    \* ConfigManager: _config and what its last call did
    saved_file,        \* the file ConfigManager.save_config has written
    process_lock,      \* ProcessManager.process_lock: who holds it
    config_use,        \* a thread in execute_tool reading the configuration, one in reload_config
    output             \* the pipes of one child and the threads draining them

\* ProcessManager-level state the wrapper-level steps leave alone
pm_vars == <<children, pm, control, process_lock, config_use, output>>

\* ConfigManager-level state the other steps leave alone
cfg_vars == <<config_files, environ, config_manager, saved_file>>

vars == <<config, tool_name, files, calls, active_processes, next_pid, batch,
          pm_vars, cfg_vars>>

---------------------------------------------------------------------------
(* Bounds *)

\* largest retry_attempts given to test_tool
MaxRetryAttempts == 2
\* largest number of argument sets handed to execute_batch
MaxBatch == 2
\* largest max_concurrent handed to execute_batch
MaxConcurrent == 1

None == "None"

---------------------------------------------------------------------------
(* Data model *)

\* errors.py: the exception classes; PostCodeMonError subclasses carry a
\* message, ToolExecutionError also a return code.  attempt is the number
\* (1-based) of the attempt that raised it, 0 when raised before the loop.
MkException(type, msg, return_code, attempt) ==
    [type |-> type, msg |-> msg, return_code |-> return_code, attempt |-> attempt]

NoException == MkException(None, <<>>, 0, 0)

\* process.py ProcessResult.__init__
ProcessResult(return_code, stdout, stderr, duration, command, tool) ==
    [return_code |-> return_code, stdout |-> stdout, stderr |-> stderr,
     duration |-> duration, command |-> command, tool_name |-> tool,
     success |-> (return_code = 0)]

NoResult == [return_code |-> 0, stdout |-> <<>>, stderr |-> <<>>, duration |-> 0,
             command |-> <<>>, tool_name |-> None, success |-> FALSE]

\* config.py ToolConfig: the attributes a ToolConfig object has
ToolConfigFields ==
    {"name", "executable_path", "default_args", "timeout_seconds",
     "retry_attempts", "environment_vars", "validation_rules",
     "working_directory"}

ToolConfig(name, executable_path, default_args, retry_attempts, validation_rules) ==
    [name |-> name, executable_path |-> executable_path,
     default_args |-> default_args, retry_attempts |-> retry_attempts,
     validation_rules |-> validation_rules]

\* validation_rules entries, in dictionary order
RequiredArgs(args) == [rule |-> "required_args", args |-> args, indices |-> <<>>]
FileExists(indices) == [rule |-> "file_exists", args |-> <<>>, indices |-> indices]

\* config.py WrapperConfig.max_concurrent_jobs default
DefaultMaxConcurrentJobs == 10

\* The configurations the wrapper is constructed with: test_tool as in the
\* test fixture (plus the file_exists rule of the example configuration),
\* simple_tool without rules, bare_tool without an executable path.
WrapperConfig(n) ==
    [tools |->
        [t \in {"test_tool", "simple_tool", "bare_tool"} |->
            CASE t = "test_tool" ->
                    ToolConfig(t, "test_tool.exe", <<"--verbose">>, n,
                               <<RequiredArgs(<<"--input">>), FileExists(<<1>>)>>)
              [] t = "simple_tool" ->
                    ToolConfig(t, "simple.exe", <<>>, 1, <<>>)
              [] t = "bare_tool" ->
                    ToolConfig(t, "", <<>>, n, <<RequiredArgs(<<"--input">>)>>)],
     max_concurrent_jobs |-> DefaultMaxConcurrentJobs]

\* tool names and argument lists callers pass
ToolNames == {None, "test_tool", "simple_tool", "bare_tool", "nonexistent"}

ArgLists ==
    {<<>>, <<"--input">>, <<"--input", "file.txt">>,
     <<"--input", "missing.txt">>, <<"--other-arg">>}

\* what one call of ProcessManager.execute_tool does
Outcomes == {"ok", "nonzero", "spawn_fail", "not_found", "timeout", "other"}

\* the outcomes drawn for a call whose scenario was not fixed beforehand:
\* success, a failure the retry loop catches, one it does not catch
UnplannedOutcomes == {"ok", "nonzero", "timeout"}

RECURSIVE SeqsOfLen(_, _)
SeqsOfLen(S, n) ==
    IF n = 0 THEN {<<>>}
    ELSE {Append(s, x) : s \in SeqsOfLen(S, n - 1), x \in S}

IdleCall ==
    [pc |-> "idle", tool_name |-> None, args |-> <<>>, dry_run |-> FALSE,
     effective_tool_name |-> None, final_args |-> <<>>, attempt |-> 0,
     last_exception |-> NoException, exc |-> NoException, result |-> NoResult,
     pid |-> 0, pm_calls |-> 0, spawned |-> 0, waits |-> 0, side_effect |-> <<>>]

\* progress_callback has not been called
NoProgress == [completed |-> 0, total |-> 0, current_command |-> <<>>]

IdleBatch ==
    [pc |-> "idle", tool_name |-> None, batch_args |-> <<>>, fail_fast |-> FALSE,
     max_workers |-> 0, future |-> <<>>, future_result |-> <<>>,
     results |-> <<>>, yielded |-> {}, reordered |-> FALSE, completed |-> 0,
     cancel_pos |-> 0, cancelled_done |-> FALSE, final_results |-> <<>>,
     progress_calls |-> 0, progress_args |-> NoProgress]

---------------------------------------------------------------------------
(* ToolWrapper: validation (pure functions of the configuration) *)

ConfigurationError(msg) == MkException("ConfigurationError", msg, 0, 0)
ValidationError(msg) == MkException("ValidationError", msg, 0, 0)

\* validate_tool_config without the executable_path check
validate_tool_config_no_path_check(name) ==
    IF name \notin DOMAIN config.tools
    THEN ConfigurationError(<<"Tool", name, "is not configured">>)
    ELSE NoException

\* wrapper.py validate_tool_config: the exception it raises, NoException
\* when it returns the tool's configuration
validate_tool_config(name) ==
    IF name \notin DOMAIN config.tools
    THEN ConfigurationError(<<"Tool", name, "is not configured">>)
    ELSE IF config.tools[name].executable_path = ""
    THEN ConfigurationError(<<"Tool", name, "has no executable_path configured">>)
    ELSE NoException

\* `required_arg not in args`
MissingFrom(required_arg, args) ==
    \A i \in 1..Len(args) : args[i] # required_arg

\* os.path.exists
os_path_exists(path) == path \in files

\* the required_args rule reading a key the configuration does not have
required_args_rule_wrong_key(required_args, args, name) == NoException

\* `for required_arg in required_args`: the first missing one raises
RECURSIVE required_args_rule(_, _, _)
required_args_rule(required_args, args, name) ==
    IF required_args = <<>> THEN NoException
    ELSE IF MissingFrom(Head(required_args), args)
    THEN ValidationError(<<"Required argument", Head(required_args),
                           "missing for tool", name>>)
    ELSE required_args_rule(Tail(required_args), args, name)

\* `for idx in file_arg_indices`: idx is 0-based, an index past the end of
\* args is skipped
RECURSIVE file_exists_rule(_, _)
file_exists_rule(indices, args) ==
    IF indices = <<>> THEN NoException
    ELSE IF Head(indices) < Len(args) /\ ~os_path_exists(args[Head(indices) + 1])
    THEN ValidationError(<<"File does not exist:", args[Head(indices) + 1]>>)
    ELSE file_exists_rule(Tail(indices), args)

\* `for rule_name, rule_config in validation_rules.items()`
RECURSIVE apply_validation_rules(_, _, _)
apply_validation_rules(rules, args, name) ==
    IF rules = <<>> THEN NoException
    ELSE LET r == Head(rules)
             e == IF r.rule = "required_args"
                  THEN required_args_rule(r.args, args, name)
                  ELSE IF r.rule = "file_exists"
                  THEN file_exists_rule(r.indices, args)
                  ELSE NoException
         IN IF e # NoException THEN e
            ELSE apply_validation_rules(Tail(rules), args, name)

\* wrapper.py validate_arguments: the exception it raises, NoException when
\* it returns the final argument list
validate_arguments(name, args) ==
    IF validate_tool_config(name) # NoException
    THEN validate_tool_config(name)
    ELSE apply_validation_rules(config.tools[name].validation_rules, args, name)

\* validate_arguments returning the caller's arguments alone
final_args_caller_only(name, args) == args

\* wrapper.py validate_arguments: the list it returns, default arguments
\* followed by the caller's
final_args(name, args) == config.tools[name].default_args \o args

\* f"{tool_config.executable_path} {' '.join(final_args)}"
command_preview(name, fargs) == <<config.tools[name].executable_path>> \o fargs

\* the mock result of a dry run
dry_run_result(name, fargs) ==
    ProcessResult(0, <<"DRY", "RUN:">> \o command_preview(name, fargs), <<>>, 0,
                  command_preview(name, fargs), name)

\* `tool_name or self.tool_name`
effective_tool_name(name) == IF name # None THEN name ELSE tool_name

---------------------------------------------------------------------------
(* ProcessManager.execute_tool, as far as the wrapper sees it *)

\* raise_for_status that never raises
raise_for_status_silent(result, attempt) == NoException

\* process.py raise_for_status: the exception it raises for a result,
\* NoException when it returns
raise_for_status(result, attempt) ==
    IF ~result.success
    THEN MkException("ToolExecutionError",
                     <<"Tool", result.tool_name, "failed with return code">>,
                     result.return_code, attempt)
    ELSE NoException

\* the exception ProcessManager.execute_tool raises without having
\* registered a child: the executable is not found (find_tool_executable),
\* Popen fails (wrapped into ToolExecutionError with return code -1), or the
\* audit logging ahead of the try block raises something else
pm_start_exception(outcome, name, attempt) ==
    CASE outcome = "not_found" ->
            MkException("ToolNotFoundError", <<"Tool not found:", name>>, 0, attempt)
      [] outcome = "spawn_fail" ->
            MkException("ToolExecutionError", <<"Failed to execute tool", name>>,
                        -1, attempt)
      [] OTHER ->
            MkException("Exception", <<"audit log failed">>, 0, attempt)

\* the child's return code; that of a child ended by SIGTERM is -15
ReturnCode(outcome) ==
    IF outcome = "ok" THEN 0 ELSE IF outcome = "killed" THEN -15 ELSE 1

\* the ProcessResult assembled after the child exited
pm_result(outcome, name, fargs) ==
    ProcessResult(ReturnCode(outcome), <<"output">>,
                  IF outcome = "ok" THEN <<>> ELSE <<"error">>, 1,
                  command_preview(name, fargs), name)

\* the timeout wrapped into ToolExecutionError like any other exception
pm_timeout_wrapped(attempt) ==
    MkException("ToolExecutionError", <<"Failed to execute tool">>, -1, attempt)

\* errors.py TimeoutError, raised after the child was terminated
pm_timeout(attempt) ==
    MkException("TimeoutError", <<"Tool execution timed out">>, 0, attempt)

\* an except clause that also catches TimeoutError
RetryableErrors_with_timeout ==
    {"ToolExecutionError", "ToolNotFoundError", "TimeoutError"}

\* wrapper.py: `except (ToolExecutionError, ToolNotFoundError) as e`
RetryableErrors == {"ToolExecutionError", "ToolNotFoundError"}

\* wrapper.py: `tool_config.retry_wait_seconds`, the attribute lookup on
\* the ToolConfig dataclass
has_retry_wait_seconds == "retry_wait_seconds" \in ToolConfigFields

---------------------------------------------------------------------------
(* ProcessManager: the registry of active processes and the children *)

\* largest number of ProcessManager.execute_tool invocations in flight
MaxPMCalls == 2

\* largest number of lines a child writes to one of its pipes
MaxLines == 2

PMCalls == 1..MaxPMCalls

\* str.split('_') of the tool names in use
split_underscore(name) ==
    CASE name = "test_tool" -> <<"test", "tool">>
      [] name = "simple_tool" -> <<"simple", "tool">>
      [] name = "bare_tool" -> <<"bare", "tool">>
      [] OTHER -> <<name>>

\* process.py 225: `process_id = f"{tool_name}_{process.pid}"`, as the
\* sequence of the parts the underscores separate
process_id(name, pid) == split_underscore(name) \o <<ToString(pid)>>

\* process.py 227: `self.active_processes[process_id] = process`
registration(name, pid) == [key |-> process_id(name, pid), pid |-> pid]

\* a pop that leaves the registry as it is
pop_nothing(registry, key) == registry

\* `self.active_processes.pop(key, None)`
pop(registry, key) == {e \in registry : e.key # key}

\* process.py 370: `key.startswith(f"{tool_name}_")`
starts_with(key, name) ==
    LET prefix == split_underscore(name)
    IN /\ Len(prefix) < Len(key)
       /\ \A j \in 1..Len(prefix) : key[j] = prefix[j]

\* a child process right after Popen: running, no signal sent to it
NewChild == [state |-> "running", signalled |-> FALSE]

\* ProcessManager.execute_tool invocation that has not been made yet
IdlePM ==
    [pc |-> "idle", tool_name |-> None, pid |-> 0, timed_out |-> FALSE,
     terminate_called |-> FALSE, kill_called |-> FALSE,
     result |-> NoResult, exc |-> NoException]

\* nothing called yet on the controlling thread
IdleControl ==
    [op |-> None, killed_any |-> FALSE, active |-> {}, shutdown_calls |-> 0,
     shutdown_exc |-> NoException, pm_shutdowns_completed |-> 0,
     log_shutdowns |-> 0,
     processes_to_kill |-> {}, victim |-> 0]

---------------------------------------------------------------------------
(* ConfigManager: configuration data as the YAML/JSON loaders return it *)

\* a dict without keys
EmptyItems == [k \in {} |-> 0]

\* the values of configuration data: dict, list, str and int (a list is the
\* sequence of its elements, a str or int the one-element sequence of its
\* text)
PyDict(items) == [kind |-> "dict", items |-> items, value |-> <<>>]
PyList(elements) == [kind |-> "list", items |-> EmptyItems, value |-> elements]
PyStr(text) == [kind |-> "str", items |-> EmptyItems, value |-> <<text>>]
PyInt(digits) == [kind |-> "int", items |-> EmptyItems, value |-> <<digits>>]

\* Python None where a configuration value is expected
NoneValue == [kind |-> "NoneType", items |-> EmptyItems, value |-> <<>>]

\* `isinstance(value, dict)`
isinstance_dict(value) == value.kind = "dict"

\* `self._config is None`, and ToolWrapper.config before the wrapper exists
NoConfig == [tools |-> EmptyItems, logging |-> EmptyItems,
             profiles |-> NoneValue, global_timeout |-> NoneValue,
             max_concurrent_jobs |-> NoneValue, loaded |-> FALSE]

\* config.py 61-86: _config_search_paths, highest precedence first
config_search_paths == <<"explicit", "project", "user", "system">>

\* the file at no search path exists
NoConfigFiles ==
    [l \in {"explicit", "project", "user", "system"} |-> "missing"]

\* none of the POSTCODEMON_ variables is set
NoEnviron == [POSTCODEMON_LOG_LEVEL |-> None, POSTCODEMON_TIMEOUT |-> None]

\* `config.tools.get(tool_name)` returning None
NoToolConfig ==
    [name |-> NoneValue, executable_path |-> NoneValue, default_args |-> NoneValue,
     timeout_seconds |-> NoneValue, retry_attempts |-> NoneValue]

\* no execute_tool call is reading the configuration, no reload_config runs
IdleConfigUse ==
    [pc |-> "idle", tool_name |-> None, loaded_config |-> NoConfig,
     tool_config |-> NoToolConfig, arguments_tool_config |-> NoToolConfig,
     effective_timeout |-> NoneValue, command_preview |-> <<>>,
     exc |-> NoException, reload |-> "idle"]

\* the pipes stdout and stderr
Pipes == {"stdout", "stderr"}

\* no child has been started with pipes: per pipe the number of lines
\* written to it, the number of lines its reader has appended to its
\* container, the state of its reader thread and what join made of it
IdleOutput ==
    [pc |-> "idle", child |-> "none",
     written |-> [p \in Pipes |-> 0], lines |-> [p \in Pipes |-> 0],
     thread |-> [p \in Pipes |-> "none"], joined |-> [p \in Pipes |-> "none"],
     callbacks |-> 0, stdout_str |-> 0, stderr_str |-> 0]

\* no file has been written by save_config
NoFile == [suffix |-> None, text |-> NoneValue]

\* ConfigManager.__init__: nothing cached, no call made
NewConfigManager ==
    [cached |-> NoConfig, op |-> None, returned |-> NoConfig,
     exc |-> NoException, files_read |-> FALSE]

---------------------------------------------------------------------------
(* ToolWrapper.execute_tool, one invocation c *)

\* entry of execute_tool(tool_name, args, dry_run=...)
BeginCall(c, name, args, dry_run) ==
    [calls EXCEPT ![c] = [@ EXCEPT !.pc = "validating", !.tool_name = name,
                                   !.args = args, !.dry_run = dry_run]]

\* an exception that is recorded but does not leave the invocation
Raised_not_propagated(k, e) == [k EXCEPT !.exc = e]

\* the invocation ends by raising e
Raised(k, e) == [k EXCEPT !.pc = "raised", !.exc = e]

\* the invocation ends by returning r
Returned(k, r) == [k EXCEPT !.pc = "returned", !.result = r]

\* a caller invokes execute_tool (invocation 0, outside any batch)
execute_tool(name, args, dry_run) ==
    /\ calls[0].pc = "idle"
    /\ calls' = BeginCall(0, name, args, dry_run)
    /\ UNCHANGED <<pm_vars, cfg_vars, config, tool_name, files, active_processes, next_pid, batch>>

\* wrapper.py 153-197: effective tool name, validate_tool_config,
\* validate_arguments, command preview, dry run
Validate(c) ==
    /\ calls[c].pc = "validating"
    /\ LET k == calls[c]
           eff == effective_tool_name(k.tool_name)
       IN calls' = [calls EXCEPT ![c] =
            IF eff = None
            THEN Raised(k, ConfigurationError(
                     <<"No tool name provided and no default tool configured">>))
            ELSE IF validate_tool_config(eff) # NoException
            THEN Raised([k EXCEPT !.effective_tool_name = eff],
                        validate_tool_config(eff))
            ELSE IF validate_arguments(eff, k.args) # NoException
            THEN Raised([k EXCEPT !.effective_tool_name = eff],
                        validate_arguments(eff, k.args))
            ELSE IF k.dry_run
            THEN Returned([k EXCEPT !.effective_tool_name = eff,
                                    !.final_args = final_args(eff, k.args)],
                          dry_run_result(eff, final_args(eff, k.args)))
            ELSE [k EXCEPT !.pc = "loop", !.effective_tool_name = eff,
                           !.final_args = final_args(eff, k.args),
                           !.attempt = 0, !.last_exception = NoException]]
    /\ UNCHANGED <<pm_vars, cfg_vars, config, tool_name, files, active_processes, next_pid, batch>>

\* wrapper.py 201-225 and process.py 173-227: one more iteration of
\* `for attempt in range(retry_attempts)` calls ProcessManager.execute_tool,
\* which raises at once or starts the child and registers it.  What the call
\* does is side_effect[attempt] when the scenario fixes it, and is chosen
\* here otherwise.
AttemptStart(c) ==
    /\ calls[c].pc = "loop"
    /\ LET k == calls[c]
           tc == config.tools[k.effective_tool_name]
           n == k.attempt + 1
       IN /\ k.attempt < tc.retry_attempts
          /\ \E o \in Outcomes :
               /\ n <= Len(k.side_effect) => o = k.side_effect[n]
               /\ n > Len(k.side_effect) => o \in UnplannedOutcomes
               /\ LET k1 == [k EXCEPT !.pm_calls = @ + 1,
                                      !.side_effect =
                                          IF n <= Len(@) THEN @ ELSE Append(@, o)]
                  IN IF o \in {"not_found", "spawn_fail", "other"}
                     THEN /\ calls' = [calls EXCEPT ![c] =
                                 [k1 EXCEPT !.pc = "except",
                                            !.exc = pm_start_exception(
                                                o, k.effective_tool_name, n)]]
                          /\ UNCHANGED <<active_processes, next_pid, process_lock, config_use, output>>
                     ELSE /\ calls' = [calls EXCEPT ![c] =
                                 [k1 EXCEPT !.pc = "running", !.pid = next_pid,
                                            !.spawned = @ + 1]]
                          /\ active_processes' = active_processes \cup
                                 {registration(k.effective_tool_name, next_pid)}
                          /\ next_pid' = next_pid + 1
    /\ UNCHANGED <<pm_vars, cfg_vars, config, tool_name, files, batch>>

\* process.py 270-348 and wrapper.py 227-247: the child exits or times out;
\* the key leaves the registry (finally); the result is returned when it is
\* successful, and raise_for_status raises otherwise
AttemptFinish(c) ==
    /\ calls[c].pc = "running"
    /\ LET k == calls[c]
           n == k.attempt + 1
           o == k.side_effect[n]
           r == pm_result(o, k.effective_tool_name, k.final_args)
       IN calls' = [calls EXCEPT ![c] =
            IF o = "timeout"
            THEN [k EXCEPT !.pc = "except", !.exc = pm_timeout(n), !.pid = 0]
            ELSE IF ~r.success /\ raise_for_status(r, n) # NoException
            THEN [k EXCEPT !.pc = "except", !.exc = raise_for_status(r, n),
                           !.pid = 0]
            ELSE Returned([k EXCEPT !.pid = 0], r)]
    /\ active_processes' = pop(active_processes,
           process_id(calls[c].effective_tool_name, calls[c].pid))
    /\ UNCHANGED <<pm_vars, cfg_vars, config, tool_name, files, next_pid, batch>>

\* wrapper.py 249-279: the except clause of the retry loop.  An exception
\* of another type is not caught and leaves execute_tool.  A caught one is
\* re-raised on the last attempt; before that the handler reads
\* tool_config.retry_wait_seconds, sleeps and lets the loop go on, and an
\* AttributeError leaves execute_tool when ToolConfig has no such attribute.
ExceptHandler(c) ==
    /\ calls[c].pc = "except"
    /\ LET k == calls[c]
           tc == config.tools[k.effective_tool_name]
           e == k.exc
       IN calls' = [calls EXCEPT ![c] =
            IF e.type \notin RetryableErrors
            THEN Raised(k, e)
            ELSE IF k.attempt < tc.retry_attempts - 1
            THEN IF has_retry_wait_seconds
                 THEN [k EXCEPT !.pc = "loop", !.last_exception = e,
                                !.exc = NoException, !.waits = @ + 1,
                                !.attempt = @ + 1]
                 ELSE Raised([k EXCEPT !.last_exception = e],
                             MkException("AttributeError",
                                         <<"retry_wait_seconds">>, 0, k.attempt + 1))
            ELSE Raised([k EXCEPT !.last_exception = e], e)]
    /\ UNCHANGED <<pm_vars, cfg_vars, config, tool_name, files, active_processes, next_pid, batch>>

\* wrapper.py 281-286: the loop ended without return or raise
LoopExhausted(c) ==
    /\ calls[c].pc = "loop"
    /\ LET k == calls[c]
           tc == config.tools[k.effective_tool_name]
       IN /\ k.attempt >= tc.retry_attempts
          /\ calls' = [calls EXCEPT ![c] =
               Raised(k, IF k.last_exception # NoException
                         THEN k.last_exception
                         ELSE MkException("ToolExecutionError",
                                          <<"Tool", k.effective_tool_name,
                                            "failed after attempts">>, -1, 0))]
    /\ UNCHANGED <<pm_vars, cfg_vars, config, tool_name, files, active_processes, next_pid, batch>>

\* the steps of invocation c after its entry
CallStep(c) ==
    \/ Validate(c)
    \/ AttemptStart(c)
    \/ AttemptFinish(c)
    \/ ExceptHandler(c)
    \/ LoopExhausted(c)

---------------------------------------------------------------------------
(* One execute_tool call on a freshly constructed wrapper *)

Calls == 0..MaxBatch

\* after ToolWrapper.__init__: the configuration is loaded, no process is
\* registered.  side_effect fixes what each ProcessManager.execute_tool call
\* of the invocation will do.
Init ==
    /\ \E n \in 0..MaxRetryAttempts : config = WrapperConfig(n)
    /\ tool_name \in {None, "test_tool"}
    /\ files = {"file.txt"}
    /\ \E se \in SeqsOfLen(Outcomes, MaxRetryAttempts) :
           calls = [c \in Calls |->
                      IF c = 0 THEN [IdleCall EXCEPT !.side_effect = se]
                      ELSE IdleCall]
    /\ active_processes = {}
    /\ next_pid = 1
    /\ batch = IdleBatch
    /\ children = <<>>
    /\ pm = [t \in PMCalls |-> IdlePM]
    /\ control = IdleControl
    /\ output = IdleOutput
    /\ config_use = IdleConfigUse
    /\ process_lock = None
    /\ config_files = NoConfigFiles
    /\ environ = NoEnviron
    /\ saved_file = NoFile
    /\ config_manager = NewConfigManager

Next ==
    \/ \E name \in ToolNames, args \in ArgLists, dry_run \in BOOLEAN :
           execute_tool(name, args, dry_run)
    \/ CallStep(0)

Spec == Init /\ [][Next]_vars

---------------------------------------------------------------------------
(* Properties of one execute_tool call (specification Spec) *)

\* the call has left validation
Started(k) == k.pc \notin {"idle", "validating"}

\* the call has returned or raised
Ended(k) == k.pc \in {"returned", "raised"}

\* the call reaches the retry loop: configuration and arguments are valid
\* and it is no dry run
ReachesLoop(k) ==
    /\ Started(k)
    /\ ~k.dry_run
    /\ effective_tool_name(k.tool_name) # None
    /\ validate_arguments(effective_tool_name(k.tool_name), k.args) = NoException

\* retry_attempts of the tool the call runs
Budget(k) == config.tools[effective_tool_name(k.tool_name)].retry_attempts

\* ProcessManager.execute_tool outcomes that are tool-execution errors
ToolExecutionFailures == {"nonzero", "spawn_fail"}

\* s occurs in t as a contiguous run of tokens
IsInfix(s, t) ==
    \E i \in 0..(Len(t) - Len(s)) : \A j \in 1..Len(s) : t[i + j] = s[j]

\* C1: with retry_attempts = N >= 1 and every attempt failing with a
\* tool-execution error, the call raises only after exactly N calls of
\* ProcessManager.execute_tool, and what it raises is the exception of
\* attempt N.
C1_ExactlyNAttempts ==
    LET k == calls[0] IN
    (/\ ReachesLoop(k)
     /\ Budget(k) >= 1
     /\ \A i \in 1..Budget(k) : k.side_effect[i] \in ToolExecutionFailures
     /\ Ended(k))
    => /\ k.pc = "raised"
       /\ k.pm_calls = Budget(k)
       /\ k.exc.type = "ToolExecutionError"
       /\ k.exc.attempt = Budget(k)

\* C2: with retry_attempts = N, attempts 1..j-1 failing with a
\* tool-execution error and attempt j <= N succeeding, the call makes
\* exactly j attempts and returns the result of attempt j.
C2_SucceedsOnAttemptJ ==
    LET k == calls[0] IN
    \A j \in 1..MaxRetryAttempts :
        (/\ ReachesLoop(k)
         /\ j <= Budget(k)
         /\ \A i \in 1..(j - 1) : k.side_effect[i] \in ToolExecutionFailures
         /\ k.side_effect[j] = "ok"
         /\ Ended(k))
        => /\ k.pc = "returned"
           /\ k.pm_calls = j
           /\ k.result.success
           /\ k.result.stdout = <<"output">>

\* C3: every ProcessResult execute_tool returns has return code 0; a child
\* that exits non-zero reaches the except clause of the retry loop as a
\* ToolExecutionError carrying that return code, as a failure to spawn
\* does, and is caught there (it becomes last_exception).
C3_NeverReturnsFailure ==
    LET k == calls[0] IN
    /\ k.pc = "returned" => (k.result.success /\ k.result.return_code = 0)
    /\ (k.pc \in {"except", "raised"} /\ k.pm_calls >= 1
        /\ k.side_effect[k.pm_calls] \in ToolExecutionFailures)
       => LET e == IF k.pc = "except" THEN k.exc ELSE k.last_exception
          IN /\ e.type = "ToolExecutionError"
             /\ e.attempt = k.pm_calls
             /\ e.return_code # 0
             /\ (k.side_effect[k.pm_calls] = "nonzero") = (e.return_code = 1)

\* C3 witness: a call ended after the except clause caught the
\* ToolExecutionError made from a child's return code 1.
C3_Witness ==
    /\ calls[0].pc = "raised"
    /\ calls[0].last_exception.type = "ToolExecutionError"
    /\ calls[0].last_exception.return_code = 1

C5_TimeoutIsRetried ==
    LET k == calls[0] IN
    \A i \in 1..k.pm_calls :
        (/\ Ended(k)
         /\ k.side_effect[i] = "timeout"
         /\ i < Budget(k))
        => k.pm_calls > i

\* C5 amended: an attempt that ends in a timeout error bypasses the retry
\* policy: the TimeoutError is not caught by the retry loop and leaves
\* execute_tool at once, whatever is left of the budget.
C5_TimeoutPropagates ==
    LET k == calls[0] IN
    \A i \in 1..k.pm_calls :
        (Ended(k) /\ k.side_effect[i] = "timeout")
        => /\ k.pc = "raised"
           /\ k.pm_calls = i
           /\ k.exc.type = "TimeoutError"
           /\ k.exc.attempt = i
           /\ k.last_exception # k.exc

\* C5 witness: a call ended by the TimeoutError of its first attempt with
\* a further attempt left in the budget.
C5_Witness ==
    /\ calls[0].pc = "raised"
    /\ calls[0].exc.type = "TimeoutError"
    /\ calls[0].pm_calls = 1
    /\ Budget(calls[0]) > 1

\* C6: a call with no tool name and no default, with an unconfigured tool
\* name, or with a tool without executable path raises a configuration
\* error; no process was spawned and no attempt made.
C6_ConfigurationErrorFirst ==
    LET k == calls[0]
        eff == effective_tool_name(k.tool_name)
    IN (/\ Started(k)
        /\ \/ eff = None
           \/ eff \notin DOMAIN config.tools
           \/ config.tools[eff].executable_path = "")
       => /\ k.pc = "raised"
          /\ k.exc.type = "ConfigurationError"
          /\ k.pm_calls = 0 /\ k.spawned = 0 /\ k.attempt = 0 /\ k.waits = 0
          /\ active_processes = {} /\ next_pid = 1

\* C6 witness: a call for the configured tool without executable path has
\* been refused.
C6_Witness ==
    /\ calls[0].pc = "raised"
    /\ calls[0].effective_tool_name = "bare_tool"
    /\ ~calls[0].dry_run

\* the tool's rules list a required argument that args lacks
LacksRequired(name, args) ==
    \E r \in 1..Len(config.tools[name].validation_rules) :
        LET rule == config.tools[name].validation_rules[r] IN
        /\ rule.rule = "required_args"
        /\ \E a \in 1..Len(rule.args) :
               \A i \in 1..Len(args) : args[i] # rule.args[a]

\* C7 as stated: for every tool whose rules list a required argument A, a
\* call whose arguments lack A raises a validation error with no attempt.
C7_RequiredArgEveryTool ==
    LET k == calls[0]
        eff == effective_tool_name(k.tool_name)
    IN (/\ Started(k)
        /\ eff \in DOMAIN config.tools
        /\ LacksRequired(eff, k.args))
       => /\ k.pc = "raised"
          /\ k.exc.type = "ValidationError"
          /\ k.pm_calls = 0 /\ k.spawned = 0

\* C7 amended: for every tool with an executable path whose rules list a
\* required argument A, a call whose arguments lack A raises a validation
\* error before any process is started and with no attempt made.
C7_RequiredArgValidTool ==
    LET k == calls[0]
        eff == effective_tool_name(k.tool_name)
    IN (/\ Started(k)
        /\ eff \in DOMAIN config.tools
        /\ config.tools[eff].executable_path # ""
        /\ LacksRequired(eff, k.args))
       => /\ k.pc = "raised"
          /\ k.exc.type = "ValidationError"
          /\ k.pm_calls = 0 /\ k.spawned = 0 /\ k.attempt = 0
          /\ active_processes = {} /\ next_pid = 1

\* C7 witness: test_tool was called without --input (and not as a dry
\* run) and the call raised the validation error naming the argument.
C7_Witness ==
    /\ calls[0].pc = "raised"
    /\ calls[0].effective_tool_name = "test_tool"
    /\ calls[0].args = <<"--other-arg">>
    /\ ~calls[0].dry_run
    /\ calls[0].exc.msg = <<"Required argument", "--input", "missing for tool",
                            "test_tool">>

\* the command line of a call: executable, default arguments, caller's
RenderedCommand(k) ==
    LET tc == config.tools[effective_tool_name(k.tool_name)]
    IN <<tc.executable_path>> \o tc.default_args \o k.args

\* C8 as stated: for every configured tool a dry run spawns nothing and
\* returns a successful result of duration 0 whose output contains the
\* rendered command line.
C8_DryRunAlwaysReturns ==
    LET k == calls[0]
        eff == effective_tool_name(k.tool_name)
    IN (/\ Started(k)
        /\ k.dry_run
        /\ eff \in DOMAIN config.tools)
       => /\ k.pc = "returned"
          /\ k.result.success
          /\ k.result.duration = 0
          /\ IsInfix(RenderedCommand(k), k.result.stdout)
          /\ k.pm_calls = 0 /\ k.spawned = 0
          /\ active_processes = {} /\ next_pid = 1

\* C8 amended: a dry run never spawns a process and leaves the registry
\* untouched; when the tool's configuration and the arguments pass
\* validation it returns a successful result of duration 0 whose output
\* contains the rendered command line, and otherwise it raises the
\* configuration or validation error.
C8_DryRunSpawnsNothing ==
    LET k == calls[0]
        eff == effective_tool_name(k.tool_name)
    IN (Started(k) /\ k.dry_run)
       => /\ k.pm_calls = 0 /\ k.spawned = 0 /\ k.attempt = 0
          /\ active_processes = {} /\ next_pid = 1
          /\ IF /\ eff \in DOMAIN config.tools
                /\ config.tools[eff].executable_path # ""
                /\ validate_arguments(eff, k.args) = NoException
             THEN /\ k.pc = "returned"
                  /\ k.result.success
                  /\ k.result.return_code = 0
                  /\ k.result.duration = 0
                  /\ IsInfix(RenderedCommand(k), k.result.stdout)
             ELSE /\ k.pc = "raised"
                  /\ k.exc.type \in {"ConfigurationError", "ValidationError"}

\* C8 witness: a dry run of test_tool with valid arguments has returned.
C8_Witness ==
    /\ calls[0].pc = "returned"
    /\ calls[0].dry_run
    /\ calls[0].effective_tool_name = "test_tool"
    /\ calls[0].args = <<"--input", "file.txt">>

---------------------------------------------------------------------------
(* ToolWrapper.execute_batch: a ThreadPoolExecutor of max_workers threads   *)
(* runs execute_single on the items; the calling thread collects the        *)
(* futures with as_completed.  Item i is invocation i of execute_tool.      *)

\* number of items of the batch
BatchSize == Len(batch.batch_args)

Items == 1..BatchSize

\* the argument sets callers pass for item i; the last argument tells the
\* items of a batch apart
BatchArgLists(i) ==
    {<<"--input", "file.txt", ToString(i)>>, <<"--other-arg", ToString(i)>>}

RECURSIVE BatchArgs(_)
BatchArgs(m) ==
    IF m = 0 THEN {<<>>}
    ELSE {Append(b, a) : b \in BatchArgs(m - 1), a \in BatchArgLists(m)}

\* `max_concurrent or self.config.max_concurrent_jobs`
effective_concurrent(max_concurrent) ==
    IF max_concurrent # 0 THEN max_concurrent ELSE config.max_concurrent_jobs

\* a future counts as done as soon as it has started
done_when_started(state) == state # "pending"

\* Future.done()
done(state) == state \in {"finished", "cancelled"}

\* Future.cancel(): only a future that has not started running is cancelled
cancel_noop(state) == state

cancel(state) == IF state = "pending" THEN "cancelled" ELSE state

\* `results[index] = result`: the slot a collected result is stored in
result_slot_by_completion(index, completed) == completed + 1

result_slot(index, completed) == index

\* the error message of the failed result stays empty
error_result_without_message(e, name, args) ==
    ProcessResult(-1, <<>>, <<>>, 0, <<name>> \o args, name)

\* the failed ProcessResult execute_single makes of an exception
error_result(e, name, args) ==
    ProcessResult(-1, <<>>, e.msg, 0, <<name>> \o args, name)

\* `[r for r in results if r is not None]`
RECURSIVE without_none(_)
without_none(rs) ==
    IF rs = <<>> THEN <<>>
    ELSE IF Head(rs) = NoResult THEN without_none(Tail(rs))
    ELSE <<Head(rs)>> \o without_none(Tail(rs))

\* wrapper.py 307-343: the results list is allocated and every item is
\* submitted to the pool
execute_batch(name, batch_args, max_concurrent, fail_fast) ==
    /\ batch.pc = "idle"
    /\ batch' = [batch EXCEPT
           !.pc = IF batch_args = <<>> THEN "exiting" ELSE "collecting",
           !.tool_name = name, !.batch_args = batch_args,
           !.fail_fast = fail_fast,
           !.max_workers = effective_concurrent(max_concurrent),
           !.future = [i \in 1..Len(batch_args) |-> "pending"],
           !.future_result = [i \in 1..Len(batch_args) |->
                                 [index |-> 0, result |-> NoResult]],
           !.results = [i \in 1..Len(batch_args) |-> NoResult],
           !.completed = 0]
    /\ UNCHANGED <<pm_vars, cfg_vars, config, tool_name, files, calls, active_processes, next_pid>>

\* a pool thread takes the oldest work item of the queue that is not
\* cancelled and starts execute_single on it (wrapper.py 318-321)
StartItem(i) ==
    /\ batch.pc \in {"collecting", "cancelling", "exiting"}
    /\ i \in Items
    /\ batch.future[i] = "pending"
    /\ \A j \in 1..(i - 1) : batch.future[j] # "pending"
    /\ Cardinality({j \in Items : batch.future[j] = "running"}) < batch.max_workers
    /\ batch' = [batch EXCEPT !.future[i] = "running"]
    /\ calls' = BeginCall(i, batch.tool_name, batch.batch_args[i], FALSE)
    /\ UNCHANGED <<pm_vars, cfg_vars, config, tool_name, files, active_processes, next_pid>>

\* wrapper.py 323-324: the arguments of
\* `progress_callback(index + 1, len(batch_args), result.command)`, i being
\* index + 1
progress_callback_args(i, result) ==
    [completed |-> i, total |-> Len(batch.batch_args),
     current_command |-> result.command]

\* wrapper.py 321-334: execute_single returns the index with the result of
\* execute_tool, after handing it to progress_callback (which records how
\* often and with what it was called last), or with the failed result made
\* of the exception it raised
FinishItem(i) ==
    /\ i \in Items
    /\ batch.future[i] = "running"
    /\ Ended(calls[i])
    /\ batch' = [batch EXCEPT
           !.progress_calls = IF calls[i].pc = "returned" THEN @ + 1 ELSE @,
           !.progress_args = IF calls[i].pc = "returned"
                             THEN progress_callback_args(i, calls[i].result)
                             ELSE @,
           !.future[i] = "finished",
           !.future_result[i] =
               [index |-> i,
                result |-> IF calls[i].pc = "returned" THEN calls[i].result
                           ELSE error_result(calls[i].exc, batch.tool_name,
                                             batch.batch_args[i])]]
    /\ UNCHANGED <<pm_vars, cfg_vars, config, tool_name, files, calls, active_processes, next_pid>>

\* wrapper.py 344-362: as_completed yields a finished future; its result is
\* stored; with fail_fast an unsuccessful one starts the cancellation
Collect(i) ==
    /\ batch.pc = "collecting"
    /\ i \in Items
    /\ batch.future[i] = "finished"
    /\ i \notin batch.yielded
    /\ LET fr == batch.future_result[i]
           slot == result_slot(fr.index, batch.completed)
       IN batch' = [batch EXCEPT
              !.results[slot] = fr.result,
              !.completed = @ + 1,
              !.yielded = @ \cup {i},
              !.reordered = @ \/ \E j \in 1..(i - 1) : j \notin batch.yielded,
              !.cancel_pos = IF batch.fail_fast /\ ~fr.result.success THEN 1 ELSE @,
              !.pc = IF batch.fail_fast /\ ~fr.result.success THEN "cancelling"
                     ELSE IF batch.yielded \cup {i} = Items THEN "exiting"
                     ELSE "collecting"]
    /\ UNCHANGED <<pm_vars, cfg_vars, config, tool_name, files, calls, active_processes, next_pid>>

\* wrapper.py 352-354: `for remaining_future in future_to_index`, one
\* future per step, in submission order
CancelNext ==
    /\ batch.pc = "cancelling"
    /\ batch.cancel_pos <= BatchSize
    /\ batch' = [batch EXCEPT
           !.future[batch.cancel_pos] =
               IF ~done(@) THEN cancel(@) ELSE @,
           !.cancel_pos = @ + 1]
    /\ UNCHANGED <<pm_vars, cfg_vars, config, tool_name, files, calls, active_processes, next_pid>>

\* wrapper.py 356-362: the cancellation loop is over, `break`
CancelEnd ==
    /\ batch.pc = "cancelling"
    /\ batch.cancel_pos > BatchSize
    /\ batch' = [batch EXCEPT !.pc = "exiting", !.cancelled_done = TRUE]
    /\ UNCHANGED <<pm_vars, cfg_vars, config, tool_name, files, calls, active_processes, next_pid>>

\* wrapper.py 336 and 367-378: leaving the with block waits for the pool
\* (shutdown(wait=True)): every work item has run or was cancelled; then
\* the empty slots are filtered out and the list is returned
BatchReturn ==
    /\ batch.pc = "exiting"
    /\ \A i \in Items : done(batch.future[i])
    /\ batch' = [batch EXCEPT !.pc = "done",
                              !.final_results = without_none(batch.results)]
    /\ UNCHANGED <<pm_vars, cfg_vars, config, tool_name, files, calls, active_processes, next_pid>>

\* the tools batches are run for: one whose items reach the retry loop and
\* one whose configuration is invalid
BatchToolNames == {"test_tool", "bare_tool"}

\* after ToolWrapper.__init__, before execute_batch: what each
\* ProcessManager.execute_tool call does is chosen when it is made.
\* retry_attempts is 0 (empty loop), 1 (a single attempt) or the largest.
InitBatch ==
    /\ \E n \in {0, 1, MaxRetryAttempts} : config = WrapperConfig(n)
    /\ tool_name = None
    /\ files = {"file.txt"}
    /\ calls = [c \in Calls |-> IdleCall]
    /\ active_processes = {}
    /\ next_pid = 1
    /\ batch = IdleBatch
    /\ children = <<>>
    /\ pm = [t \in PMCalls |-> IdlePM]
    /\ control = IdleControl
    /\ output = IdleOutput
    /\ config_use = IdleConfigUse
    /\ process_lock = None
    /\ config_files = NoConfigFiles
    /\ environ = NoEnviron
    /\ saved_file = NoFile
    /\ config_manager = NewConfigManager

NextBatch ==
    \/ \E name \in BatchToolNames, m \in 0..MaxBatch,
          max_concurrent \in 0..MaxConcurrent, fail_fast \in BOOLEAN :
           \E batch_args \in BatchArgs(m) :
               execute_batch(name, batch_args, max_concurrent, fail_fast)
    \/ \E i \in 1..MaxBatch : StartItem(i)
    \/ \E i \in 1..MaxBatch : CallStep(i)
    \/ \E i \in 1..MaxBatch : FinishItem(i)
    \/ \E i \in 1..MaxBatch : Collect(i)
    \/ CancelNext
    \/ CancelEnd
    \/ BatchReturn

SpecBatch == InitBatch /\ [][NextBatch]_vars

---------------------------------------------------------------------------
(* Properties of one execute_batch call (specification SpecBatch) *)

\* s is the tail of t
IsSuffix(s, t) ==
    /\ Len(s) <= Len(t)
    /\ \A j \in 1..Len(s) : t[Len(t) - Len(s) + j] = s[j]

\* r is what execute_single makes of invocation i of execute_tool
ResultOfItem(r, i) ==
    /\ Ended(calls[i])
    /\ calls[i].args = batch.batch_args[i]
    /\ IsSuffix(batch.batch_args[i], r.command)
    /\ IF calls[i].pc = "returned"
       THEN r = calls[i].result /\ r.success
       ELSE r.return_code = -1 /\ ~r.success /\ r.stderr = calls[i].exc.msg

\* C9: without fail_fast, execute_batch over M argument sets returns
\* exactly M results and result i is the result of input i, whatever the
\* order in which the workers ran and completed and whichever items
\* succeeded or raised.
C9_BatchResultsInInputOrder ==
    (batch.pc = "done" /\ ~batch.fail_fast)
    => /\ Len(batch.final_results) = BatchSize
       /\ \A i \in Items : ResultOfItem(batch.final_results[i], i)

\* C9 witness: a batch of MaxBatch items without fail_fast has returned;
\* a later item was collected before an earlier one, one item succeeded
\* and one raised.
C9_Witness ==
    /\ batch.pc = "done"
    /\ ~batch.fail_fast
    /\ BatchSize = MaxBatch
    /\ batch.reordered
    /\ \E i \in Items : batch.final_results[i].success
    /\ \E i \in Items : batch.final_results[i].return_code = -1

\* C10: with fail_fast, once an unsuccessful result was observed and the
\* cancellation loop is over, no future is left pending and no item that
\* had not started begins to execute; the returned list has at most M
\* entries, each the result of an item that completed and was collected.
C10_FailFastStopsScheduling ==
    /\ [][batch.cancelled_done =>
            \A i \in Items :
                batch.future[i] # "running" => batch'.future[i] # "running"]_vars
    /\ [](batch.cancelled_done =>
            /\ batch.fail_fast
            /\ \E i \in batch.yielded : ~batch.future_result[i].result.success
            /\ \A i \in Items : batch.future[i] # "pending")
    /\ []((batch.pc = "done" /\ batch.fail_fast) =>
            /\ Len(batch.final_results) <= BatchSize
            /\ \A j \in 1..Len(batch.final_results) :
                   \E i \in batch.yielded :
                       /\ batch.future[i] = "finished"
                       /\ batch.final_results[j] = batch.future_result[i].result
                       /\ ResultOfItem(batch.final_results[j], i))

\* C10 witness: a fail_fast batch has returned after cancelling an item
\* that never ran; the list is shorter than the batch.
C10_Witness ==
    /\ batch.pc = "done"
    /\ batch.fail_fast
    /\ batch.cancelled_done
    /\ \E i \in Items : batch.future[i] = "cancelled" /\ calls[i].pc = "idle"
    /\ batch.final_results # <<>>
    /\ Len(batch.final_results) < BatchSize

\* the exception types execute_tool lets out: configuration, validation,
\* retry exhaustion, timeout, and the AttributeError of the except clause
ItemExceptionTypes ==
    {"ConfigurationError", "ValidationError", "ToolExecutionError",
     "TimeoutError", "AttributeError"}

\* C11: in execute_batch an exception raised while executing one item,
\* whatever its type, becomes a failed ProcessResult of that item with
\* return code -1 and the exception message in stderr; execute_batch itself
\* never ends by raising, and without fail_fast no item is cancelled: every
\* item has run when the batch returns.
C11_ItemExceptionBecomesFailedResult ==
    /\ batch.pc \in {"idle", "collecting", "cancelling", "exiting", "done"}
    /\ \A i \in Items :
           (batch.future[i] = "finished" /\ calls[i].pc = "raised")
           => LET r == batch.future_result[i].result
              IN /\ calls[i].exc.type \in ItemExceptionTypes
                 /\ r.return_code = -1
                 /\ ~r.success
                 /\ r.stdout = <<>>
                 /\ r.stderr = calls[i].exc.msg
                 /\ r.stderr # <<>>
    /\ ~batch.fail_fast => \A i \in Items : batch.future[i] # "cancelled"
    /\ (batch.pc = "done" /\ ~batch.fail_fast)
       => \A i \in Items :
              /\ Ended(calls[i])
              /\ calls[i].pc = "raised"
                 => /\ batch.final_results[i].return_code = -1
                    /\ batch.final_results[i].stderr = calls[i].exc.msg

\* C11 witness: a batch without fail_fast has returned; its first item
\* raised an exception the retry loop does not catch, and the second item
\* was started after that and returned a successful result.
C11_Witness ==
    /\ batch.pc = "done"
    /\ ~batch.fail_fast
    /\ BatchSize = MaxBatch
    /\ calls[1].pc = "raised"
    /\ calls[1].exc.type \notin RetryableErrors
    /\ batch.final_results[1].return_code = -1
    /\ batch.final_results[1].stderr = calls[1].exc.msg
    /\ calls[2].pc = "returned"
    /\ batch.final_results[2].success

---------------------------------------------------------------------------
(* ProcessManager.execute_tool step by step, with kill_process and          *)
(* get_active_processes called from another thread.  The steps that run     *)
(* under process_lock are single actions; kill_process holds the lock from  *)
(* its first line to its return.                                            *)

\* the tool invocation t of ProcessManager.execute_tool runs: the
\* invocations alternate between two tools, the name of one being the
\* first part of the name of the other
PMToolName(t) == IF t % 2 = 1 THEN "test_tool" ELSE "test"

\* the tool names kill_process is called with
KillToolNames == {"", "test", "test_tool"}

\* how ProcessManager.execute_tool gets to its wait: the child is started,
\* the executable is not found, or Popen raises
StartOutcomes == {"ok", "not_found", "spawn_fail"}

\* Popen.wait returns whatever the child does
wait_returns_at_once(child) == TRUE

\* Popen.wait returns once the child has exited
wait_returns(child) == child.state # "running"

\* Popen.wait collecting the exit status of a child that has exited: its
\* pid is free from then on
reap(p) ==
    [children EXCEPT ![p].state = IF @ = "exited" THEN "reaped" ELSE @]

\* Popen.terminate / Popen.kill: nothing is sent to a child that has exited
send_signal(child) ==
    IF child.state = "running" THEN [child EXCEPT !.signalled = TRUE] ELSE child

\* psutil.Process(pid) raises NoSuchProcess when the pid does not exist; a
\* child that has exited and was not waited for yet still has its pid
psutil_Process(child) == child.state # "reaped"

\* psutil.Process.status()
status(child) == IF child.state = "running" THEN "running" ELSE "zombie"

\* process.py 344-348: any other exception leaves as ToolExecutionError
pm_wrapped_exception(name) ==
    MkException("ToolExecutionError", <<"Failed to execute tool", name>>, -1, 0)

\* process.py 297-304: the ProcessResult of a child that exited; the
\* command line is the executable handed to execute_tool
process_result(outcome, name) ==
    ProcessResult(ReturnCode(outcome), <<"output">>,
                  IF outcome = "ok" THEN <<>> ELSE <<"error">>, 1, <<name>>, name)

\* the invocation has returned or raised
PMEnded(k) == k.pc \in {"returned", "raised"}

\* process.py 180-227: the executable is looked up, the child is started
\* and registered under its key
pm_execute_tool(t, name, start) ==
    /\ pm[t].pc = "idle"
    /\ \A u \in 1..(t - 1) : pm[u].pc # "idle"
    /\ IF start # "ok"
       THEN /\ pm' = [pm EXCEPT ![t] =
                   [@ EXCEPT !.pc = "raised", !.tool_name = name,
                             !.exc = pm_start_exception(start, name, 0)]]
            /\ UNCHANGED <<children, active_processes, next_pid, process_lock, config_use, output>>
       ELSE /\ pm' = [pm EXCEPT ![t] =
                   [@ EXCEPT !.pc = "waiting", !.tool_name = name,
                             !.pid = next_pid]]
            /\ children' = Append(children, NewChild)
            /\ active_processes' = active_processes \cup
                   {registration(name, next_pid)}
            /\ next_pid' = next_pid + 1
    /\ UNCHANGED <<cfg_vars, config, tool_name, files, calls, batch, control, process_lock, config_use, output>>

\* the child exits, by itself or because of a signal
ChildExits(p) ==
    /\ p \in DOMAIN children
    /\ children[p].state = "running"
    /\ children' = [children EXCEPT ![p].state = "exited"]
    /\ UNCHANGED <<cfg_vars, config, tool_name, files, calls, batch, active_processes,
                   next_pid, pm, control, process_lock, config_use, output>>

\* process.py 229-268 and 319-348: starting the monitor or the output
\* threads raises; the finally clause removes the key and the exception
\* leaves as ToolExecutionError.  Nobody waits for the child.
ErrorAfterRegistration(t) ==
    /\ pm[t].pc = "waiting"
    /\ active_processes' =
           pop(active_processes, process_id(pm[t].tool_name, pm[t].pid))
    /\ pm' = [pm EXCEPT ![t] =
           [@ EXCEPT !.pc = "raised",
                     !.exc = pm_wrapped_exception(pm[t].tool_name)]]
    /\ UNCHANGED <<cfg_vars, config, tool_name, files, calls, batch, children, next_pid,
                   control, process_lock, config_use, output>>

\* process.py 272 and 283-322: process.wait(timeout) returns the return
\* code, the result is assembled, the finally clause removes the key
WaitReturns(t) ==
    /\ pm[t].pc = "waiting"
    /\ wait_returns(children[pm[t].pid])
    /\ children' = reap(pm[t].pid)
    /\ active_processes' =
           pop(active_processes, process_id(pm[t].tool_name, pm[t].pid))
    /\ \E o \in {"ok", "nonzero"} :
           /\ children[pm[t].pid].signalled => o = "nonzero"
           /\ pm' = [pm EXCEPT ![t] =
                  [@ EXCEPT !.pc = "returned",
                            !.result = process_result(o, pm[t].tool_name)]]
    /\ UNCHANGED <<cfg_vars, config, tool_name, files, calls, batch, next_pid, control, process_lock, config_use, output>>

\* process.py 273-277: process.wait(timeout) raises TimeoutExpired; the
\* child is asked to terminate and waited for during the grace period
WaitTimesOut(t) ==
    /\ pm[t].pc = "waiting"
    /\ children[pm[t].pid].state = "running"
    /\ children' = [children EXCEPT ![pm[t].pid] = send_signal(@)]
    /\ pm' = [pm EXCEPT ![t] =
           [@ EXCEPT !.pc = "grace", !.timed_out = TRUE,
                     !.terminate_called = TRUE]]
    /\ UNCHANGED <<cfg_vars, config, tool_name, files, calls, batch, active_processes,
                   next_pid, control, process_lock, config_use, output>>

\* process.py 278-280: the grace period is over and the child still runs:
\* it is killed and waited for without a timeout
GraceExpires(t) ==
    /\ pm[t].pc = "grace"
    /\ children[pm[t].pid].state = "running"
    /\ children' = [children EXCEPT ![pm[t].pid] = send_signal(@)]
    /\ pm' = [pm EXCEPT ![t] = [@ EXCEPT !.pc = "killed", !.kill_called = TRUE]]
    /\ UNCHANGED <<cfg_vars, config, tool_name, files, calls, batch, active_processes,
                   next_pid, control, process_lock, config_use, output>>

\* process.py 277 / 280, 281, 319-322, 341-342: the wait of the timeout
\* handler returns, TimeoutError is raised, the finally clause removes the
\* key and the outer handler re-raises the TimeoutError
TimeoutWaitReturns(t) ==
    /\ pm[t].pc \in {"grace", "killed"}
    /\ wait_returns(children[pm[t].pid])
    /\ children' = reap(pm[t].pid)
    /\ active_processes' =
           pop(active_processes, process_id(pm[t].tool_name, pm[t].pid))
    /\ pm' = [pm EXCEPT ![t] = [@ EXCEPT !.pc = "raised", !.exc = pm_timeout(0)]]
    /\ UNCHANGED <<cfg_vars, config, tool_name, files, calls, batch, next_pid, control, process_lock, config_use, output>>

\* the steps of ProcessManager.execute_tool invocation t after its start
PMStep(t) ==
    \/ ErrorAfterRegistration(t)
    \/ WaitReturns(t)
    \/ WaitTimesOut(t)
    \/ GraceExpires(t)
    \/ TimeoutWaitReturns(t)

\* process.py 357-395: under the lock, the registered processes with the
\* given pid or, without a pid, those whose key starts with the tool name
\* and an underscore, are terminated, waited for, killed when the wait
\* times out, and removed from the registry: each of them has exited and
\* was waited for when the call returns, whether kill was needed or not.
\* terminate, wait and kill of an own child do not raise.
kill_process(name, process_id_arg) ==
    LET processes_to_kill ==
            IF process_id_arg # 0
            THEN {e \in active_processes : e.pid = process_id_arg}
            ELSE {e \in active_processes : starts_with(e.key, name)}
        pids == {e.pid : e \in processes_to_kill}
    IN /\ children' = [p \in DOMAIN children |->
              IF p \in pids
              THEN [send_signal(children[p]) EXCEPT !.state = "reaped"]
              ELSE children[p]]
       /\ active_processes' = active_processes \ processes_to_kill
       /\ control' = [control EXCEPT !.op = "kill_process",
                                     !.killed_any = processes_to_kill # {},
                                     !.active = {}]
       /\ UNCHANGED <<cfg_vars, config, tool_name, files, calls, batch, next_pid, pm, process_lock, config_use, output>>

\* process.py 397-421: under the lock, an entry is returned for every
\* registered process psutil finds; the keys of the others are removed
get_active_processes ==
    LET active ==
            {[key |-> e.key, pid |-> e.pid, tool_name |-> e.key[1],
              status |-> status(children[e.pid])] :
                 e \in {x \in active_processes : psutil_Process(children[x.pid])}}
        stale_keys == {e.key : e \in active_processes} \ {a.key : a \in active}
    IN /\ active_processes' = {e \in active_processes : e.key \notin stale_keys}
       /\ control' = [control EXCEPT !.op = "get_active_processes",
                                     !.killed_any = FALSE, !.active = active]
       /\ UNCHANGED <<cfg_vars, config, tool_name, files, calls, batch, children,
                      next_pid, pm, process_lock, config_use, output>>

\* a ProcessManager of a constructed wrapper; no call made yet
InitPM ==
    /\ config = WrapperConfig(1)
    /\ tool_name = None
    /\ files = {"file.txt"}
    /\ calls = [c \in Calls |-> IdleCall]
    /\ active_processes = {}
    /\ next_pid = 1
    /\ batch = IdleBatch
    /\ children = <<>>
    /\ pm = [t \in PMCalls |-> IdlePM]
    /\ control = IdleControl
    /\ output = IdleOutput
    /\ config_use = IdleConfigUse
    /\ process_lock = None
    /\ config_files = NoConfigFiles
    /\ environ = NoEnviron
    /\ saved_file = NoFile
    /\ config_manager = NewConfigManager

NextPM ==
    \/ \E t \in PMCalls, start \in StartOutcomes :
           pm_execute_tool(t, PMToolName(t), start)
    \/ \E p \in PMCalls : ChildExits(p)
    \/ \E t \in PMCalls : PMStep(t)
    \/ \E name \in KillToolNames, p \in 0..MaxPMCalls : kill_process(name, p)
    \/ get_active_processes

SpecPM == InitPM /\ [][NextPM]_vars

---------------------------------------------------------------------------
(* Properties of ProcessManager (specification SpecPM) *)

\* the tool the child with pid p was started for
ToolOfPid(p) == pm[CHOOSE t \in PMCalls : pm[t].pid = p].tool_name

\* C12: when the child does not exit within the timeout, execute_tool
\* asks it to terminate; it kills the child only after that, when the grace
\* period ended with the child still running; the TimeoutError is raised
\* only once the child has exited and was waited for; and a run that timed
\* out never ends by returning a ProcessResult.
C12_TimeoutTerminatesThenRaises ==
    /\ [][\A t \in PMCalls :
              (pm'[t].kill_called /\ ~pm[t].kill_called)
              => /\ pm[t].terminate_called
                 /\ pm[t].pc = "grace"
                 /\ children[pm[t].pid].state = "running"]_vars
    /\ [](\A t \in PMCalls :
              pm[t].timed_out
              => /\ pm[t].terminate_called
                 /\ pm[t].pc \in {"grace", "killed", "raised"}
                 /\ pm[t].result = NoResult
                 /\ pm[t].pc = "raised"
                    => /\ pm[t].exc.type = "TimeoutError"
                       /\ children[pm[t].pid].state = "reaped")

\* C12 witness: an invocation timed out, terminated its child, killed it
\* after the grace period, and has raised TimeoutError with the child gone.
C12_Witness ==
    \E t \in PMCalls :
        /\ pm[t].pc = "raised"
        /\ pm[t].exc.type = "TimeoutError"
        /\ pm[t].timed_out
        /\ pm[t].terminate_called
        /\ pm[t].kill_called
        /\ children[pm[t].pid].state = "reaped"

\* C13: once an execute_tool invocation that registered its child has
\* returned or raised (result, timeout, or another error), the registry
\* holds no entry for that child; a get_active_processes call made after a
\* timeout error does not list the process.
C13_KeyRemovedOnEveryExit ==
    /\ [](\A t \in PMCalls :
              (PMEnded(pm[t]) /\ pm[t].pid # 0)
              => \A e \in active_processes :
                     /\ e.pid # pm[t].pid
                     /\ e.key # process_id(pm[t].tool_name, pm[t].pid))
    /\ [][get_active_processes
          => \A t \in PMCalls :
                 (PMEnded(pm[t]) /\ pm[t].pid # 0)
                 => \A a \in control'.active : a.pid # pm[t].pid]_vars

\* C13 witness: one invocation has raised TimeoutError, another one has
\* ended after registering its child too, the registry is empty and
\* get_active_processes has returned nothing.
C13_Witness ==
    /\ \E t \in PMCalls :
           /\ pm[t].pc = "raised" /\ pm[t].exc.type = "TimeoutError"
           /\ \E u \in PMCalls \ {t} : PMEnded(pm[u]) /\ pm[u].pid # 0
    /\ active_processes = {}
    /\ control.op = "get_active_processes"
    /\ control.active = {}

\* C14: every entry get_active_processes returns is of a process that has
\* not exited when the call is made, so a process that was killed or that
\* completed is in no later result; and the registry keeps exactly the
\* entries that were returned.
C14_ActiveProcessesAreAlive ==
    [][get_active_processes
       => /\ \A a \in control'.active : children[a.pid].state = "running"
          /\ \A t \in PMCalls :
                 PMEnded(pm[t]) => \A a \in control'.active : a.pid # pm[t].pid
          /\ active_processes' =
                 {e \in active_processes :
                      \E a \in control'.active : a.key = e.key}]_vars

\* C15: kill_process(T) terminates and deregisters exactly the registered
\* processes started for tool T, kill_process(T, pid) exactly the
\* registered process with that pid; every other process and registry
\* entry is left alone; the call returns True exactly when there was such a
\* process.
C15_KillExactlyToolProcesses ==
    [][\A name \in KillToolNames, p \in 0..MaxPMCalls :
           kill_process(name, p)
           => LET targets ==
                      IF p # 0
                      THEN {e \in active_processes : e.pid = p}
                      ELSE {e \in active_processes : ToolOfPid(e.pid) = name}
              IN /\ active_processes' = active_processes \ targets
                 /\ \A e \in targets : children'[e.pid].state = "reaped"
                 /\ \A q \in DOMAIN children :
                        (\A e \in targets : e.pid # q)
                        => children'[q] = children[q]
                 /\ control'.killed_any = (targets # {})]_vars

---------------------------------------------------------------------------
(* ToolWrapper.shutdown, called while ProcessManager.execute_tool            *)
(* invocations are in flight on other threads                               *)

\* largest number of ToolWrapper.shutdown calls
MaxShutdownCalls == 2

\* the parameters concurrent.futures.ThreadPoolExecutor.shutdown accepts
ExecutorShutdownParams == {"wait", "cancel_futures"}

\* process.py 438: `self.executor.shutdown(wait=True, timeout=10)`; a
\* keyword argument the method does not have is a TypeError
executor_shutdown ==
    IF {"wait", "timeout"} \subseteq ExecutorShutdownParams
    THEN NoException
    ELSE MkException("TypeError",
                     <<"shutdown() got an unexpected keyword argument", "timeout">>,
                     0, 0)

\* the exception classes derived from Exception that shutdown can meet
ExceptionSubclasses ==
    {"TypeError", "AttributeError", "Exception", "ToolExecutionError",
     "ToolNotFoundError", "TimeoutError", "ConfigurationError", "ValidationError"}

\* an except clause that catches nothing
shutdown_catches_nothing(e) == FALSE

\* wrapper.py 463: `except Exception as e`
shutdown_catches(e) == e.type \in ExceptionSubclasses

\* process.py 426-435: under the lock every registered process is asked to
\* terminate and waited for during 2 seconds; one that has not exited by
\* then (slow) is killed and not waited for.  The registry is left as it is.
terminate_all(slow) ==
    [p \in DOMAIN children |->
        IF \E e \in active_processes : e.pid = p
        THEN IF children[p].state = "running" /\ p \in slow
             THEN send_signal(children[p])
             ELSE [send_signal(children[p]) EXCEPT !.state = "reaped"]
        ELSE children[p]]

\* wrapper.py 452-464 with process.py 423-438 and logger.py 233-246:
\* ProcessManager.shutdown terminates the registered processes and shuts
\* the executor down; then LogManager.shutdown flushes and closes the
\* handlers; an exception of either is caught and printed.
shutdown ==
    /\ control.shutdown_calls < MaxShutdownCalls
    /\ \E slow \in SUBSET {p \in DOMAIN children : children[p].state = "running"} :
           children' = terminate_all(slow)
    /\ LET e == executor_shutdown
       IN control' = [control EXCEPT
              !.shutdown_calls = @ + 1,
              !.pm_shutdowns_completed = IF e = NoException THEN @ + 1 ELSE @,
              !.log_shutdowns = IF e = NoException THEN @ + 1 ELSE @,
              !.shutdown_exc =
                  IF e = NoException \/ shutdown_catches(e) THEN @ ELSE e]
    /\ UNCHANGED <<cfg_vars, config, tool_name, files, calls, batch, active_processes,
                   next_pid, pm, process_lock, config_use, output>>

NextShutdown ==
    \/ \E t \in PMCalls, start \in StartOutcomes :
           pm_execute_tool(t, PMToolName(t), start)
    \/ \E p \in PMCalls : ChildExits(p)
    \/ \E t \in PMCalls : PMStep(t)
    \/ shutdown

SpecShutdown == InitPM /\ [][NextShutdown]_vars

\* C16: whatever the state of the wrapper (no process registered, processes
\* registered, shut down before), every ToolWrapper.shutdown call returns
\* normally: no exception ever leaves shutdown.
C16_ShutdownNeverRaises ==
    control.shutdown_exc = NoException

\* C16 witness: shutdown was called MaxShutdownCalls times, at least once
\* with a registered process that had to be killed and is still registered.
C16_Witness ==
    /\ control.shutdown_calls = MaxShutdownCalls
    /\ control.shutdown_exc = NoException
    /\ \E e \in active_processes :
           children[e.pid].state = "running" /\ children[e.pid].signalled

\* C17: every ToolWrapper.shutdown call runs ProcessManager.shutdown to its
\* end (processes terminated or killed, worker pool drained) and then
\* shuts the logging down: each call made has reached the logging shutdown.
C17_LoggingShutdownReached ==
    /\ control.pm_shutdowns_completed = control.shutdown_calls
    /\ control.log_shutdowns = control.shutdown_calls

---------------------------------------------------------------------------
(* ConfigManager.load_config: the files of the search paths are loaded and  *)
(* merged, the environment overrides are applied, the WrapperConfig object  *)
(* is created and cached                                                    *)

\* what a configuration file can be: absent, not parsable as YAML, or one
\* of the documents below
FileStates == {"missing", "unparsable", "base_config", "override_config"}

\* the document of the lower layer in test_hierarchical_config_merging,
\* with a list and a profile added
base_config ==
    PyDict(
        ("tools" :> PyDict(
            "base_tool" :> PyDict(
                ("executable_path" :> PyStr("/base/tool.exe"))
                @@ ("timeout_seconds" :> PyInt("100"))
                @@ ("default_args" :> PyList(<<"--verbose", "--all">>)))))
        @@ ("global_timeout" :> PyInt("500"))
        @@ ("logging" :> PyDict("level" :> PyStr("INFO")))
        @@ ("profiles" :> PyDict("fast" :> PyDict("jobs" :> PyInt("4")))))

\* the document of the higher layer in test_hierarchical_config_merging,
\* with a list and a profile that is no dict added
override_config ==
    PyDict(
        ("tools" :> PyDict(
            ("base_tool" :> PyDict(
                ("timeout_seconds" :> PyInt("200"))
                @@ ("default_args" :> PyList(<<"--quiet">>))))
            @@ ("new_tool" :> PyDict(
                "executable_path" :> PyStr("/new/tool.exe")))))
        @@ ("global_timeout" :> PyInt("1000"))
        @@ ("logging" :> PyDict("file_path" :> PyStr("/var/log/postcodemon.log")))
        @@ ("profiles" :> PyDict("fast" :> PyStr("off"))))

\* the path of a layer's file
config_path(layer) ==
    CASE layer = "system" -> "/etc/postcodemon/postcodemon.yaml"
      [] layer = "user" -> "~/.config/postcodemon/postcodemon.yaml"
      [] layer = "project" -> "./postcodemon.yaml"
      [] OTHER -> "/explicit/config.yaml"

\* a test that finds a file at every search path
exists_everywhere(layer) == TRUE

\* `config_path.exists()`
exists(layer) == config_files[layer] # "missing"

\* the texts yaml.safe_load resolves to an int
IntegerTexts == {"0", "1", "2", "3", "4", "5", "10", "100", "200", "300", "500",
                 "600", "1000", "1200"}

\* yaml.dump(..., default_flow_style=False): a dict becomes a block mapping,
\* a list a block sequence, None the plain scalar null, an int the plain
\* scalar of its digits, a str a plain scalar unless the plain scalar would
\* be read back as something else, in which case it is quoted (the items of
\* the lists in use need no quotes)
RECURSIVE yaml_dump(_)
yaml_dump(value) ==
    CASE value.kind = "dict" ->
            [kind |-> "block mapping",
             items |-> [k \in DOMAIN value.items |-> yaml_dump(value.items[k])],
             value |-> <<>>]
      [] value.kind = "list" ->
            [kind |-> "block sequence", items |-> EmptyItems, value |-> value.value]
      [] value.kind = "NoneType" ->
            [kind |-> "plain", items |-> EmptyItems, value |-> <<"null">>]
      [] value.kind = "int" ->
            [kind |-> "plain", items |-> EmptyItems, value |-> value.value]
      [] OTHER ->
            [kind |-> IF value.value[1] \in IntegerTexts \cup {"null", ""}
                      THEN "quoted" ELSE "plain",
             items |-> EmptyItems, value |-> value.value]

\* yaml.safe_load of a text yaml.dump has written
RECURSIVE yaml_safe_load(_)
yaml_safe_load(text) ==
    CASE text.kind = "block mapping" ->
            PyDict([k \in DOMAIN text.items |-> yaml_safe_load(text.items[k])])
      [] text.kind = "block sequence" -> PyList(text.value)
      [] text.kind = "quoted" -> PyStr(text.value[1])
      [] text.kind = "plain" /\ text.value[1] = "null" -> NoneValue
      [] text.kind = "plain" /\ text.value[1] \in IntegerTexts -> PyInt(text.value[1])
      [] OTHER -> PyStr(text.value[1])

\* json.load accepts no block mapping and no block sequence
json_load_raises(text) == text.kind \in {"block mapping", "block sequence"}

\* config.py 119-127: _load_config_file of the file save_config has written
load_saved_file ==
    CASE saved_file.suffix \in {".yaml", ".yml"} ->
            [data |-> yaml_safe_load(saved_file.text), exc |-> NoException]
      [] saved_file.suffix = ".json" /\ json_load_raises(saved_file.text) ->
            [data |-> NoneValue,
             exc |-> MkException("JSONDecodeError", <<"Expecting value">>, 0, 0)]
      [] saved_file.suffix = ".json" ->
            [data |-> yaml_safe_load(saved_file.text), exc |-> NoException]
      [] OTHER ->
            [data |-> NoneValue,
             exc |-> ConfigurationError(
                 <<"Unsupported configuration file format:", saved_file.suffix>>)]

\* config.py 119-127: _load_config_file; yaml.safe_load raises on a text
\* that is no YAML
load_config_file(layer) ==
    CASE config_files[layer] = "saved_config" -> load_saved_file
      [] config_files[layer] = "base_config" ->
            [data |-> base_config, exc |-> NoException]
      [] config_files[layer] = "override_config" ->
            [data |-> override_config, exc |-> NoException]
      [] OTHER ->
            [data |-> NoneValue,
             exc |-> MkException("YAMLError", <<"while parsing a flow node">>, 0, 0)]

\* config.py 131-139: `result = base.copy()`, then one pass of the loop
\* `for key, value in override.items()` per key of keys
RECURSIVE merge_items(_, _, _)
merge_items(result, override, keys) ==
    IF keys = {} THEN result
    ELSE LET key == CHOOSE k \in keys : TRUE
             value == override[key]
             merged ==
                 IF /\ key \in DOMAIN result
                    /\ isinstance_dict(result[key])
                    /\ isinstance_dict(value)
                 THEN PyDict(merge_items(result[key].items, value.items,
                                         DOMAIN value.items))
                 ELSE value
         IN merge_items([k \in DOMAIN result \cup {key} |->
                            IF k = key THEN merged ELSE result[k]],
                        override, keys \ {key})

\* a merge in which a dict of the override replaces the dict of the base
merge_configs_shallow(base, override) ==
    PyDict([k \in DOMAIN base.items \cup DOMAIN override.items |->
               IF k \in DOMAIN override.items THEN override.items[k]
               ELSE base.items[k]])

\* config.py 129-139: _merge_configs
merge_configs(base, override) ==
    PyDict(merge_items(base.items, override.items, DOMAIN override.items))

\* `reversed(self._config_search_paths)`
reversed(paths) == [i \in 1..Len(paths) |-> paths[Len(paths) + 1 - i]]

\* config.py 97-107: the loop over the reversed search paths from position
\* i on; a path that does not exist is skipped, an exception of loading or
\* merging becomes a ConfigurationError with the path
RECURSIVE load_layers(_, _, _)
load_layers(paths, i, config_data) ==
    IF i > Len(paths) THEN [data |-> config_data, exc |-> NoException]
    ELSE IF ~exists(paths[i]) THEN load_layers(paths, i + 1, config_data)
    ELSE LET loaded_config == load_config_file(paths[i])
         IN IF loaded_config.exc # NoException
            THEN [data |-> config_data,
                  exc |-> ConfigurationError(
                      <<"Failed to load configuration from",
                        config_path(paths[i])>>)]
            ELSE load_layers(paths, i + 1,
                             merge_configs(config_data, loaded_config.data))

\* `int(value)` of a text of digits
int(text) == PyInt(text)

\* dict.get(key, default)
get(d, key, default) == IF key \in DOMAIN d.items THEN d.items[key] ELSE default

\* `d[key] = value`
set_item(d, key, value) ==
    PyDict([k \in DOMAIN d.items \cup {key} |->
               IF k = key THEN value ELSE d.items[k]])

\* config.py 141-171: _apply_env_overrides for POSTCODEMON_LOG_LEVEL
\* ('logging', 'level') and POSTCODEMON_TIMEOUT ('global_timeout',)
apply_env_overrides(config_data) ==
    LET with_level ==
            IF environ.POSTCODEMON_LOG_LEVEL = None THEN config_data
            ELSE set_item(config_data, "logging",
                          set_item(get(config_data, "logging", PyDict(EmptyItems)),
                                   "level", PyStr(environ.POSTCODEMON_LOG_LEVEL)))
    IN IF environ.POSTCODEMON_TIMEOUT = None THEN with_level
       ELSE set_item(with_level, "global_timeout",
                     int(environ.POSTCODEMON_TIMEOUT))

\* config.py 179-188: the ToolConfig made of a tool's data
tool_config_object(name, tool_data) ==
    [name |-> PyStr(name),
     executable_path |-> get(tool_data, "executable_path", PyStr("")),
     default_args |-> get(tool_data, "default_args", PyList(<<>>)),
     timeout_seconds |-> get(tool_data, "timeout_seconds", PyInt("300")),
     retry_attempts |-> get(tool_data, "retry_attempts", PyInt("3"))]

\* config.py 173-211: _create_config_object (the documents in use have
\* dicts wherever the method expects one)
create_config_object(config_data) ==
    LET tools == get(config_data, "tools", PyDict(EmptyItems))
        logging_data == get(config_data, "logging", PyDict(EmptyItems))
    IN [tools |-> [name \in DOMAIN tools.items |->
                      tool_config_object(name, tools.items[name])],
        logging |-> [level |-> get(logging_data, "level", PyStr("INFO")),
                     file_path |-> get(logging_data, "file_path", NoneValue)],
        profiles |-> get(config_data, "profiles", PyDict(EmptyItems)),
        global_timeout |-> get(config_data, "global_timeout", PyInt("600")),
        max_concurrent_jobs |-> get(config_data, "max_concurrent_jobs", PyInt("10")),
        loaded |-> TRUE]

\* wrapper.py 443: `self.config_manager._config = None` left out
clear_cache_skipped(manager) == manager

\* wrapper.py 443: `self.config_manager._config = None`
clear_cache(manager) == [manager EXCEPT !.cached = NoConfig]

\* config.py 88-117: what a load_config call makes of the manager
loaded_manager(manager) ==
    IF manager.cached # NoConfig
    THEN [manager EXCEPT !.op = "load_config", !.returned = manager.cached,
                         !.exc = NoException, !.files_read = FALSE]
    ELSE LET layers == load_layers(reversed(config_search_paths), 1,
                                   PyDict(EmptyItems))
             object == create_config_object(apply_env_overrides(layers.data))
         IN IF layers.exc # NoException
            THEN [manager EXCEPT !.op = "load_config", !.returned = NoConfig,
                                 !.exc = layers.exc, !.files_read = TRUE]
            ELSE [manager EXCEPT !.op = "load_config", !.cached = object,
                                 !.returned = object, !.exc = NoException,
                                 !.files_read = TRUE]

\* ConfigManager.load_config, called on the manager directly
load_config ==
    /\ config_manager' = loaded_manager(config_manager)
    /\ UNCHANGED <<pm_vars, config, tool_name, files, calls, active_processes,
                   next_pid, batch, config_files, environ, saved_file>>

\* the environments a manager is used in
Environments ==
    {NoEnviron,
     [POSTCODEMON_LOG_LEVEL |-> "ERROR", POSTCODEMON_TIMEOUT |-> "1200"]}

\* a new ConfigManager, whatever files exist at its search paths
InitLoad ==
    /\ config = NoConfig
    /\ tool_name = None
    /\ files = {"file.txt"}
    /\ calls = [c \in Calls |-> IdleCall]
    /\ active_processes = {}
    /\ next_pid = 1
    /\ batch = IdleBatch
    /\ children = <<>>
    /\ pm = [t \in PMCalls |-> IdlePM]
    /\ control = IdleControl
    /\ output = IdleOutput
    /\ config_use = IdleConfigUse
    /\ process_lock = None
    /\ config_files \in [DOMAIN NoConfigFiles -> FileStates]
    /\ environ \in Environments
    /\ saved_file = NoFile
    /\ config_manager = NewConfigManager

NextLoad == load_config

SpecLoad == InitLoad /\ [][NextLoad]_vars

---------------------------------------------------------------------------
(* Properties of ConfigManager.load_config (specification SpecLoad) *)

\* what a layer contributes: its document, or nothing when it has no file
LayerData(layer) ==
    CASE config_files[layer] = "base_config" -> base_config
      [] config_files[layer] = "override_config" -> override_config
      [] OTHER -> PyDict(EmptyItems)

\* the merge rule: two dicts are merged key by key, recursively; anything
\* else is replaced by the value of higher precedence; a key of only one
\* side is kept
RECURSIVE DeepMerge(_, _)
DeepMerge(lower, higher) ==
    IF lower.kind = "dict" /\ higher.kind = "dict"
    THEN PyDict([k \in DOMAIN lower.items \cup DOMAIN higher.items |->
                    IF k \notin DOMAIN higher.items THEN lower.items[k]
                    ELSE IF k \notin DOMAIN lower.items THEN higher.items[k]
                    ELSE DeepMerge(lower.items[k], higher.items[k])])
    ELSE higher

\* the layers folded from lowest to highest precedence, the environment
\* overrides applied last
FoldedConfig ==
    create_config_object(apply_env_overrides(
        DeepMerge(DeepMerge(DeepMerge(DeepMerge(PyDict(EmptyItems),
                                                LayerData("system")),
                                      LayerData("user")),
                            LayerData("project")),
                  LayerData("explicit"))))

\* some existing file cannot be parsed
SomeFileBroken == \E l \in DOMAIN config_files : config_files[l] = "unparsable"

\* C19: the configuration load_config produces from the files is the fold
\* of the merge rule over system, user, project and explicit file, in this
\* order, with the environment overrides applied last.
C19_LoadIsFoldOfMerge ==
    (config_manager.op = "load_config" /\ config_manager.files_read
        /\ config_manager.exc = NoException)
    => /\ config_manager.returned = FoldedConfig
       /\ config_manager.cached = FoldedConfig

\* C19 witness: the four layers all have a file, lower and higher layers
\* hold both documents in both orders, the environment variables are set,
\* and load_config has returned a configuration.
C19_Witness ==
    /\ config_manager.op = "load_config"
    /\ config_manager.files_read
    /\ config_manager.exc = NoException
    /\ config_files = [system |-> "base_config", user |-> "override_config",
                       project |-> "base_config", explicit |-> "override_config"]
    /\ environ.POSTCODEMON_TIMEOUT = "1200"
    /\ config_manager.returned.global_timeout = PyInt("1200")
    /\ config_manager.returned.tools["base_tool"].default_args = PyList(<<"--quiet">>)
    /\ config_manager.returned.tools["base_tool"].executable_path
           = PyStr("/base/tool.exe")

\* C20: when a file that exists at some layer cannot be parsed, load_config
\* raises a ConfigurationError whose message names the path of such a file
\* and nothing is cached; when no existing file is broken the load
\* succeeds, files that do not exist being no error.
C20_BrokenFileFailsLoad ==
    (config_manager.op = "load_config" /\ config_manager.files_read)
    => IF SomeFileBroken
       THEN /\ config_manager.exc.type = "ConfigurationError"
            /\ \E l \in DOMAIN config_files :
                   /\ config_files[l] = "unparsable"
                   /\ config_manager.exc.msg
                          = <<"Failed to load configuration from", config_path(l)>>
            /\ config_manager.cached = NoConfig
            /\ config_manager.returned = NoConfig
       ELSE /\ config_manager.exc = NoException
            /\ config_manager.cached # NoConfig

\* C20 witness: one layer has no file, one a valid file, one a file that
\* cannot be parsed; load_config has raised and cached nothing.
C20_Witness ==
    /\ config_manager.op = "load_config"
    /\ config_manager.files_read
    /\ config_files["system"] = "missing"
    /\ config_files["user"] = "base_config"
    /\ config_files["explicit"] = "unparsable"
    /\ config_manager.exc.type = "ConfigurationError"
    /\ config_manager.cached = NoConfig

---------------------------------------------------------------------------
(* ToolWrapper.reload_config while the configuration files change *)

\* a configuration file is written, replaced or removed
write_file(layer, state) ==
    /\ config_files' = [config_files EXCEPT ![layer] = state]
    /\ UNCHANGED <<pm_vars, config, tool_name, files, calls, active_processes,
                   next_pid, batch, environ, config_manager, saved_file>>

\* wrapper.py 441-450: the cache is cleared and load_config called; its
\* result becomes ToolWrapper.config, its exception leaves reload_config
reload_config ==
    LET manager == loaded_manager(clear_cache(config_manager))
    IN /\ config_manager' = [manager EXCEPT !.op = "reload_config"]
       /\ config' = IF manager.exc = NoException THEN manager.returned ELSE config
       /\ UNCHANGED <<pm_vars, tool_name, files, calls, active_processes,
                      next_pid, batch, config_files, environ, saved_file>>

\* after ToolWrapper.__init__ with an explicit configuration file: the
\* configuration is loaded from the files and cached
InitReload ==
    /\ tool_name = None
    /\ files = {"file.txt"}
    /\ calls = [c \in Calls |-> IdleCall]
    /\ active_processes = {}
    /\ next_pid = 1
    /\ batch = IdleBatch
    /\ children = <<>>
    /\ pm = [t \in PMCalls |-> IdlePM]
    /\ control = IdleControl
    /\ output = IdleOutput
    /\ config_use = IdleConfigUse
    /\ process_lock = None
    /\ config_files \in {f \in [DOMAIN NoConfigFiles -> FileStates \ {"unparsable"}] :
                            f["explicit"] = "base_config"}
    /\ environ \in Environments
    /\ saved_file = NoFile
    /\ config_manager = loaded_manager(NewConfigManager)
    /\ config = config_manager.cached

NextReload ==
    \/ \E state \in FileStates : write_file("explicit", state)
    \/ load_config
    \/ reload_config

SpecReload == InitReload /\ [][NextReload]_vars

\* C18: while a configuration is cached, load_config returns it without
\* reading a file and keeps it cached, whatever was written to the files
\* since; writing a file changes neither the cache nor the wrapper's
\* configuration; and after a reload_config that succeeded the wrapper's
\* configuration and the cache are what the files hold now.
C18_CachedUntilReload ==
    /\ [][(load_config /\ config_manager.cached # NoConfig)
          => /\ config_manager'.returned = config_manager.cached
             /\ config_manager'.cached = config_manager.cached
             /\ ~config_manager'.files_read]_vars
    /\ [][(config_files' # config_files)
          => /\ config_manager'.cached = config_manager.cached
             /\ config' = config]_vars
    /\ [][(reload_config /\ config_manager'.exc = NoException)
          => /\ config' = FoldedConfig
             /\ config_manager'.cached = FoldedConfig]_vars

\* C18 witness: the wrapper was constructed with the explicit file alone
\* holding the base document; the file was replaced by the other document
\* and reload_config has made the wrapper's configuration follow: the tool
\* only the new document defines is there.
C18_Witness ==
    /\ config_manager.op = "reload_config"
    /\ config_manager.exc = NoException
    /\ config_files = [system |-> "missing", user |-> "missing",
                       project |-> "missing", explicit |-> "override_config"]
    /\ "new_tool" \in DOMAIN config.tools
    /\ config = config_manager.cached

---------------------------------------------------------------------------
(* ConfigManager.save_config and a load of the saved file *)

\* the suffixes of the paths handed to save_config
SaveSuffixes == {".yaml", ".yml", ".json", ".cfg"}

\* the configuration of test_save_config
test_save_config ==
    PyDict(
        ("tools" :> PyDict(
            "test_tool" :> PyDict(
                ("executable_path" :> PyStr("/path/to/tool.exe"))
                @@ ("default_args" :> PyList(<<"--verbose">>))
                @@ ("timeout_seconds" :> PyInt("300"))
                @@ ("retry_attempts" :> PyInt("3")))))
        @@ ("logging" :> PyDict("level" :> PyStr("DEBUG")))
        @@ ("global_timeout" :> PyInt("600"))
        @@ ("max_concurrent_jobs" :> PyInt("10")))

\* a configuration whose tool is named and located by digits
numeric_config ==
    PyDict("tools" :> PyDict(
        "7" :> PyDict(("executable_path" :> PyStr("100"))
                      @@ ("retry_attempts" :> PyInt("1")))))

\* the WrapperConfig objects handed to save_config
SavedConfigs ==
    {create_config_object(data) :
        data \in {PyDict(EmptyItems), test_save_config, numeric_config,
                  base_config, override_config,
                  merge_configs(base_config, override_config)}}

\* config.py 231-254: config_dict
config_dict(cfg) ==
    PyDict(
        ("tools" :> PyDict([name \in DOMAIN cfg.tools |->
            PyDict(("executable_path" :> cfg.tools[name].executable_path)
                   @@ ("default_args" :> cfg.tools[name].default_args)
                   @@ ("timeout_seconds" :> cfg.tools[name].timeout_seconds)
                   @@ ("retry_attempts" :> cfg.tools[name].retry_attempts))]))
        @@ ("logging" :> PyDict(("level" :> cfg.logging.level)
                                @@ ("file_path" :> cfg.logging.file_path)))
        @@ ("profiles" :> cfg.profiles)
        @@ ("global_timeout" :> cfg.global_timeout)
        @@ ("max_concurrent_jobs" :> cfg.max_concurrent_jobs))

\* config.py 223-260: save_config(config, path) with a path of the given
\* suffix; the text written is YAML whatever the suffix
save_config(suffix) ==
    /\ saved_file' = [suffix |-> suffix, text |-> yaml_dump(config_dict(config))]
    /\ config_files' = [config_files EXCEPT !["explicit"] = "saved_config"]
    /\ UNCHANGED <<pm_vars, config, tool_name, files, calls, active_processes,
                   next_pid, batch, environ, config_manager>>

\* `ConfigManager(path).load_config()` with the path of the saved file
load_saved_config ==
    /\ saved_file # NoFile
    /\ config_manager' = loaded_manager(NewConfigManager)
    /\ UNCHANGED <<pm_vars, config, tool_name, files, calls, active_processes,
                   next_pid, batch, config_files, environ, saved_file>>

\* a WrapperConfig to save, no configuration file anywhere
InitSave ==
    /\ config \in SavedConfigs
    /\ tool_name = None
    /\ files = {"file.txt"}
    /\ calls = [c \in Calls |-> IdleCall]
    /\ active_processes = {}
    /\ next_pid = 1
    /\ batch = IdleBatch
    /\ children = <<>>
    /\ pm = [t \in PMCalls |-> IdlePM]
    /\ control = IdleControl
    /\ output = IdleOutput
    /\ config_use = IdleConfigUse
    /\ process_lock = None
    /\ config_files = NoConfigFiles
    /\ environ \in Environments
    /\ saved_file = NoFile
    /\ config_manager = NewConfigManager

NextSave ==
    \/ \E suffix \in SaveSuffixes : save_config(suffix)
    \/ load_saved_config

SpecSave == InitSave /\ [][NextSave]_vars

\* the tool mapping of a WrapperConfig: the tool names and, per tool, the
\* executable path, the timeout and the retry count
ToolMapping(cfg) ==
    [name \in DOMAIN cfg.tools |->
        <<cfg.tools[name].executable_path, cfg.tools[name].timeout_seconds,
          cfg.tools[name].retry_attempts>>]

\* C21: a fresh ConfigManager that loads the file save_config has written
\* gets a configuration with the tool mapping of the saved WrapperConfig.
C21_SaveLoadRoundTrip ==
    [][load_saved_config
       => /\ config_manager'.exc = NoException
          /\ ToolMapping(config_manager'.returned) = ToolMapping(config)]_vars

\* the round trip through a file with a YAML suffix
C21_YamlRoundTrip ==
    [][(load_saved_config /\ saved_file.suffix \in {".yaml", ".yml"})
       => /\ config_manager'.exc = NoException
          /\ ToolMapping(config_manager'.returned) = ToolMapping(config)]_vars

---------------------------------------------------------------------------
(* The progress callback of execute_batch (specification SpecBatch) *)

\* C22: progress_callback gets the number of items completed so far as its
\* first argument and the batch size as its second, so when a batch whose
\* items all succeeded has returned, the callback was called once per item
\* and its last call, made when the last item completed, had the batch
\* size as first argument.
C22_ProgressCountsCompleted ==
    (batch.pc = "done" /\ BatchSize > 0
        /\ \A i \in Items : calls[i].pc = "returned")
    => /\ batch.progress_calls = BatchSize
       /\ batch.progress_args.total = BatchSize
       /\ batch.progress_args.completed = BatchSize

---------------------------------------------------------------------------
(* The file_exists rule (specification Spec) *)

\* the tool's rules list, under file_exists, an index that is no position
\* of args or whose argument names no existing path
LacksFile(name, args) ==
    \E r \in 1..Len(config.tools[name].validation_rules) :
        LET rule == config.tools[name].validation_rules[r] IN
        /\ rule.rule = "file_exists"
        /\ \E a \in 1..Len(rule.indices) :
               \/ rule.indices[a] >= Len(args)
               \/ args[rule.indices[a] + 1] \notin files

\* C23: a call for a tool with a file_exists rule whose arguments do not
\* have an existing path at every listed index (the configuration and the
\* required arguments being in order) raises the validation error naming
\* the missing file before any process is started.
C23_FileExistsEveryIndex ==
    LET k == calls[0]
        eff == effective_tool_name(k.tool_name)
    IN (/\ Started(k)
        /\ eff \in DOMAIN config.tools
        /\ config.tools[eff].executable_path # ""
        /\ ~LacksRequired(eff, k.args)
        /\ LacksFile(eff, k.args))
       => /\ k.pc = "raised"
          /\ k.exc.type = "ValidationError"
          /\ k.exc.msg[1] = "File does not exist:"
          /\ k.pm_calls = 0 /\ k.spawned = 0

---------------------------------------------------------------------------
(* The life of one execute_tool call (specification SpecFair) *)

\* the thread running the call keeps running: a step the call can take is
\* taken eventually, in particular every attempt's child ends
SpecFair == Init /\ [][Next]_vars /\ WF_vars(CallStep(0))

\* the steps of the state machine: PENDING is idle, VALIDATING validating,
\* RUNNING the loop with its attempt (loop: about to call
\* ProcessManager.execute_tool, running: the child runs), FAILED except,
\* DONE returned, EXHAUSTED raised
ExecuteToolEdges ==
    {<<"idle", "validating">>,
     <<"validating", "returned">>, <<"validating", "raised">>,
     <<"validating", "loop">>,
     <<"loop", "running">>, <<"loop", "except">>, <<"loop", "raised">>,
     <<"running", "returned">>, <<"running", "except">>,
     <<"except", "loop">>, <<"except", "raised">>}

---------------------------------------------------------------------------
(* ProcessManager.process_lock: kill_process holds it while it waits *)

\* process.py 359-372: kill_process takes the lock and selects the
\* registered processes with the given pid or of the given tool; with none
\* selected it returns False, otherwise it asks the first (the registry
\* keeps the order of registration) to terminate and waits for it, the
\* lock held
kill_process_begin(name, process_id_arg) ==
    LET processes_to_kill ==
            IF process_id_arg # 0
            THEN {e \in active_processes : e.pid = process_id_arg}
            ELSE {e \in active_processes : starts_with(e.key, name)}
        first == CHOOSE e \in processes_to_kill :
                     \A x \in processes_to_kill : e.pid <= x.pid
    IN /\ process_lock = None
       /\ IF processes_to_kill = {}
          THEN /\ control' = [control EXCEPT !.op = "kill_process",
                                             !.killed_any = FALSE, !.active = {}]
               /\ UNCHANGED <<children, process_lock, config_use, output>>
          ELSE /\ process_lock' = "kill_process"
               /\ children' = [children EXCEPT ![first.pid] = send_signal(@)]
               /\ control' = [control EXCEPT
                      !.op = "kill_process", !.killed_any = FALSE, !.active = {},
                      !.processes_to_kill = processes_to_kill,
                      !.victim = first.pid]
       /\ UNCHANGED <<cfg_vars, config, tool_name, files, calls, batch,
                      active_processes, next_pid, pm, config_use, output>>

\* process.py 378-381: the victim has not exited within 5 seconds: it is
\* killed and waited for without a timeout
kill_process_grace_expires ==
    /\ process_lock = "kill_process"
    /\ children[control.victim].state = "running"
    /\ control.op = "kill_process"
    /\ children' = [children EXCEPT ![control.victim] = send_signal(@)]
    /\ control' = [control EXCEPT !.op = "kill_process: killed"]
    /\ UNCHANGED <<cfg_vars, config, tool_name, files, calls, batch,
                   active_processes, next_pid, pm, process_lock, config_use, output>>

\* process.py 377-395: the wait for the victim returns; its key is removed;
\* the next selected process is asked to terminate, or, with none left,
\* the lock is released and True returned
kill_process_wait_returns ==
    LET rest == {e \in control.processes_to_kill : e.pid # control.victim}
        next == CHOOSE e \in rest : \A x \in rest : e.pid <= x.pid
        reaped == reap(control.victim)
    IN /\ process_lock = "kill_process"
       /\ wait_returns(children[control.victim])
       /\ active_processes' =
              {e \in active_processes : e.pid # control.victim}
       /\ IF rest = {}
          THEN /\ children' = reaped
               /\ process_lock' = None
               /\ control' = [control EXCEPT
                      !.op = "kill_process", !.killed_any = TRUE,
                      !.processes_to_kill = {}, !.victim = 0]
          ELSE /\ children' = [reaped EXCEPT ![next.pid] = send_signal(@)]
               /\ process_lock' = process_lock
               /\ control' = [control EXCEPT
                      !.op = "kill_process", !.killed_any = TRUE,
                      !.processes_to_kill = rest, !.victim = next.pid]
       /\ UNCHANGED <<cfg_vars, config, tool_name, files, calls, batch, next_pid, pm, config_use, output>>

\* process.py 225-227, 319-322, 399: the steps of execute_tool that
\* register or remove a key, and get_active_processes, take the lock and so
\* wait until it is free; the waits of execute_tool take no lock
with_process_lock(t) ==
    \/ /\ process_lock = None
       /\ \/ pm_execute_tool(t, PMToolName(t), "ok")
          \/ ErrorAfterRegistration(t)
          \/ WaitReturns(t)
          \/ TimeoutWaitReturns(t)
    \/ WaitTimesOut(t)
    \/ GraceExpires(t)

NextLock ==
    \/ \E t \in PMCalls : with_process_lock(t)
    \/ \E p \in PMCalls : ChildExits(p)
    \/ \E name \in KillToolNames, p \in 0..MaxPMCalls : kill_process_begin(name, p)
    \/ kill_process_grace_expires
    \/ kill_process_wait_returns
    \/ process_lock = None /\ get_active_processes

SpecLock == InitPM /\ [][NextLock]_vars

\* the child of invocation t has exited: process.wait has returned or
\* will return at once, and what is left of the call is to build the
\* result and to remove the key
CanComplete(t) ==
    /\ pm[t].pc \in {"waiting", "grace", "killed"}
    /\ wait_returns(children[pm[t].pid])

\* C25: an execute_tool call whose process is none of those a kill_process
\* in progress has selected is not held up by it: once its child has exited
\* the call can complete, the lock it needs is not held by a kill_process
\* that waits for its victim.
C25_KillDoesNotBlockOthers ==
    \A t \in PMCalls :
        (/\ CanComplete(t)
         /\ \A e \in control.processes_to_kill : e.pid # pm[t].pid)
        => process_lock # "kill_process"

---------------------------------------------------------------------------
(* execute_tool reading the configuration while reload_config runs *)

\* config.py 213-216: get_tool_config on what load_config returned
get_tool_config(loaded, name) ==
    IF name \in DOMAIN loaded.tools THEN loaded.tools[name] ELSE NoToolConfig

\* wrapper.py 77-91: the exception validate_tool_config raises for what
\* get_tool_config returned, NoException when it returns it
validated_tool_config(tool_config, name) ==
    IF tool_config = NoToolConfig
    THEN ConfigurationError(<<"Tool", name, "is not configured">>)
    ELSE IF tool_config.executable_path = PyStr("")
    THEN ConfigurationError(<<"Tool", name, "has no executable_path configured">>)
    ELSE NoException

\* wrapper.py 153-159: execute_tool calls validate_tool_config, which gets
\* the tool's configuration of ConfigManager.load_config (the cache, or the
\* files when nothing is cached)
execute_tool_validate_tool_config(name) ==
    LET manager == loaded_manager(config_manager)
        tool_config == get_tool_config(manager.returned, name)
        exc == IF manager.exc # NoException THEN manager.exc
               ELSE validated_tool_config(tool_config, name)
    IN /\ config_use.pc = "idle"
       /\ config_manager' = manager
       /\ config_use' = [config_use EXCEPT
              !.pc = IF exc # NoException THEN "raised" ELSE "validate_arguments",
              !.tool_name = name, !.loaded_config = manager.returned,
              !.tool_config = tool_config, !.exc = exc]
       /\ UNCHANGED <<config, tool_name, files, calls, active_processes, next_pid,
                      batch, children, pm, control, process_lock, config_files,
                      environ, saved_file, output>>

\* wrapper.py 162 and 92-124: validate_arguments calls validate_tool_config
\* once more and takes validation rules and default arguments from what it
\* gets this time
execute_tool_validate_arguments ==
    LET manager == loaded_manager(config_manager)
        tool_config == get_tool_config(manager.returned, config_use.tool_name)
        exc == IF manager.exc # NoException THEN manager.exc
               ELSE validated_tool_config(tool_config, config_use.tool_name)
    IN /\ config_use.pc = "validate_arguments"
       /\ config_manager' = manager
       /\ config_use' = [config_use EXCEPT
              !.pc = IF exc # NoException THEN "raised" ELSE "effective_timeout",
              !.arguments_tool_config = tool_config, !.exc = exc]
       /\ UNCHANGED <<config, tool_name, files, calls, active_processes, next_pid,
                      batch, children, pm, control, process_lock, config_files,
                      environ, saved_file, output>>

\* wrapper.py 165-178: `timeout or tool_config.timeout_seconds or
\* self.config.global_timeout` with no timeout given (0 is falsy), and the
\* command line made of the executable path of the first tool_config and
\* the default arguments of the second
execute_tool_effective_timeout ==
    /\ config_use.pc = "effective_timeout"
    /\ config_use' = [config_use EXCEPT
           !.pc = "prepared",
           !.effective_timeout =
               IF config_use.tool_config.timeout_seconds # PyInt("0")
               THEN config_use.tool_config.timeout_seconds
               ELSE config.global_timeout,
           !.command_preview =
               config_use.tool_config.executable_path.value
               \o config_use.arguments_tool_config.default_args.value]
    /\ UNCHANGED <<config, tool_name, files, calls, active_processes, next_pid,
                   batch, children, pm, control, process_lock, cfg_vars, output>>

\* wrapper.py 443: reload_config clears the cache
reload_config_clear ==
    /\ config_use.reload = "idle"
    /\ config_manager' = clear_cache(config_manager)
    /\ config_use' = [config_use EXCEPT !.reload = "load_config"]
    /\ UNCHANGED <<config, tool_name, files, calls, active_processes, next_pid,
                   batch, children, pm, control, process_lock, config_files,
                   environ, saved_file, output>>

\* wrapper.py 444-450: reload_config assigns what load_config returns to
\* ToolWrapper.config and updates the logging
reload_config_load ==
    LET manager == loaded_manager(config_manager)
    IN /\ config_use.reload = "load_config"
       /\ config_manager' = [manager EXCEPT !.op = "reload_config"]
       /\ config' = IF manager.exc = NoException THEN manager.returned ELSE config
       /\ config_use' = [config_use EXCEPT !.reload = "idle"]
       /\ UNCHANGED <<tool_name, files, calls, active_processes, next_pid,
                      batch, children, pm, control, process_lock, config_files,
                      environ, saved_file, output>>

\* the documents a configuration file is rewritten with
RewrittenFiles == {"base_config", "override_config"}

NextRace ==
    \/ \E state \in RewrittenFiles : write_file("explicit", state)
    \/ execute_tool_validate_tool_config("base_tool")
    \/ execute_tool_validate_arguments
    \/ execute_tool_effective_timeout
    \/ reload_config_clear
    \/ reload_config_load

SpecRace == InitReload /\ [][NextRace]_vars

\* C26: an execute_tool call that runs while the configuration is reloaded
\* takes the tool definition, the validation rules and default arguments,
\* and the timeout from one configuration: the tool configuration that
\* validate_arguments worked with is the one validate_tool_config returned
\* to execute_tool, and a global timeout that is used is the one of the
\* configuration that tool configuration came from.
C26_OneConfigurationVersion ==
    config_use.pc = "prepared"
    => /\ config_use.arguments_tool_config = config_use.tool_config
       /\ config_use.tool_config.timeout_seconds = PyInt("0")
              => config_use.effective_timeout
                     = config_use.loaded_config.global_timeout

---------------------------------------------------------------------------
(* ProcessManager.execute_tool: the output of the child *)

\* the steps below leave everything but the output state alone
output_only ==
    UNCHANGED <<config, tool_name, files, calls, active_processes, next_pid,
                batch, children, pm, control, process_lock, config_use, cfg_vars>>

\* process.py 213-268: the child is started with two pipes and the two
\* reader threads are started
start_output_threads ==
    /\ output.pc = "idle"
    /\ output' = [output EXCEPT !.pc = "wait", !.child = "running",
                                !.thread = [p \in Pipes |-> "readline"]]
    /\ output_only

\* the child writes a line to a pipe
child_writes(pipe) ==
    /\ output.child = "running"
    /\ output.written[pipe] < MaxLines
    /\ output' = [output EXCEPT !.written[pipe] = @ + 1]
    /\ output_only

\* the child exits; the write ends of its pipes are closed
child_exits ==
    /\ output.child = "running"
    /\ output' = [output EXCEPT !.child = "exited"]
    /\ output_only

\* process.py 245-253: read_output gets a line of readline and appends it
\* to the container; with a callback (stdout) it then calls it
read_output_line(pipe) ==
    /\ output.thread[pipe] = "readline"
    /\ output.lines[pipe] < output.written[pipe]
    /\ output' = [output EXCEPT
           !.lines[pipe] = @ + 1,
           !.thread[pipe] = IF pipe = "stdout" THEN "callback" ELSE "readline"]
    /\ output_only

\* process.py 250-251: `callback(line.rstrip())` returns
callback_returns ==
    /\ output.thread["stdout"] = "callback"
    /\ output' = [output EXCEPT !.callbacks = @ + 1,
                                !.thread["stdout"] = "readline"]
    /\ output_only

\* process.py 247: readline returns '' at the end of the pipe, the reader
\* ends
read_output_ends(pipe) ==
    /\ output.thread[pipe] = "readline"
    /\ output.child = "exited"
    /\ output.lines[pipe] = output.written[pipe]
    /\ output' = [output EXCEPT !.thread[pipe] = "finished"]
    /\ output_only

\* process.py 272: process.wait returns the return code
output_wait_returns ==
    /\ output.pc = "wait"
    /\ output.child = "exited"
    /\ output' = [output EXCEPT !.pc = "join stdout"]
    /\ output_only

\* `thread.join(timeout=1)` returns: the thread has ended, or a second has
\* passed while it is in the caller's callback (a reader that is at
\* readline gets its line or the end of the pipe at once)
join_returns(state) == state \in {"finished", "callback"}

\* process.py 284-285: stdout_thread.join(timeout=1), then
\* stderr_thread.join(timeout=1)
join(pipe) ==
    /\ output.pc = "join " \o pipe
    /\ join_returns(output.thread[pipe])
    /\ output' = [output EXCEPT
           !.pc = IF pipe = "stdout" THEN "join stderr" ELSE "result",
           !.joined[pipe] = IF output.thread[pipe] = "finished"
                            THEN "finished" ELSE "timeout"]
    /\ output_only

\* process.py 287-304: the lines in the containers are joined and put into
\* the ProcessResult
output_result ==
    /\ output.pc = "result"
    /\ output' = [output EXCEPT !.pc = "returned",
                                !.stdout_str = output.lines["stdout"],
                                !.stderr_str = output.lines["stderr"]]
    /\ output_only

InitOutput == InitPM

NextOutput ==
    \/ start_output_threads
    \/ \E pipe \in Pipes : child_writes(pipe)
    \/ child_exits
    \/ \E pipe \in Pipes : read_output_line(pipe)
    \/ callback_returns
    \/ \E pipe \in Pipes : read_output_ends(pipe)
    \/ output_wait_returns
    \/ \E pipe \in Pipes : join(pipe)
    \/ output_result

SpecOutput == InitOutput /\ [][NextOutput]_vars

\* C27: when the ProcessResult is assembled both readers have ended, its
\* stdout and stderr hold every line the child wrote to the pipe, and the
\* progress callback has been called for every stdout line.
C27_ReadersJoinedBeforeResult ==
    output.pc = "returned"
    => /\ \A pipe \in Pipes : output.thread[pipe] = "finished"
       /\ output.stdout_str = output.written["stdout"]
       /\ output.stderr_str = output.written["stderr"]
       /\ output.callbacks = output.written["stdout"]

---------------------------------------------------------------------------
(* execute_batch returns after its items (specification SpecBatch) *)

\* C28: when execute_batch has returned, with or without fail_fast, no item
\* is executing: every item that was started has ended and its future is
\* finished, every other one was cancelled before it ran, and no item
\* starts or goes on afterwards.
C28_ReturnsAfterStartedItems ==
    /\ [](batch.pc = "done" =>
            \A i \in Items :
                /\ batch.future[i] \in {"finished", "cancelled"}
                /\ batch.future[i] = "finished" => Ended(calls[i])
                /\ batch.future[i] = "cancelled" => calls[i].pc = "idle")
    /\ [][batch.pc = "done" => calls' = calls /\ batch' = batch]_vars

\* C28 witness: a fail_fast batch has returned; an item that was running
\* when the futures were cancelled has finished since, and its result was
\* never collected.
C28_Witness ==
    /\ batch.pc = "done"
    /\ batch.fail_fast
    /\ batch.cancelled_done
    /\ \E i \in Items :
           /\ batch.future[i] = "finished"
           /\ i \notin batch.yielded
           /\ Ended(calls[i])

---------------------------------------------------------------------------
(* kill_process on the child of a running execute_tool attempt *)

\* process.py 357-395: kill_process finds the child of invocation c in the
\* registry, terminates it, waits for it and pops its key; the process.wait
\* of the attempt then returns the return code of a terminated child
kill_running_child(c) ==
    /\ calls[c].pc = "running"
    /\ LET k == calls[c]
           n == k.attempt + 1
       IN /\ k.side_effect[n] # "killed"
          /\ registration(k.effective_tool_name, k.pid) \in active_processes
          /\ calls' = [calls EXCEPT ![c].side_effect[n] = "killed"]
          /\ active_processes' =
                 pop(active_processes, process_id(k.effective_tool_name, k.pid))
    /\ UNCHANGED <<pm_vars, cfg_vars, config, tool_name, files, next_pid, batch, output>>

NextKill ==
    \/ \E name \in ToolNames, args \in ArgLists, dry_run \in BOOLEAN :
           execute_tool(name, args, dry_run)
    \/ CallStep(0)
    \/ kill_running_child(0)

SpecKill == Init /\ [][NextKill]_vars

\* attempt n of the call ran a child that kill_process terminated
KilledAttempt(k, n) ==
    /\ n \in 1..Len(k.side_effect)
    /\ n <= k.pm_calls
    /\ k.side_effect[n] = "killed"

\* C29: a child that kill_process terminates while its execute_tool call
\* waits for it makes a failed attempt like any other: the attempt ends
\* with a ToolExecutionError of a non-zero return code, and when it was not
\* the last attempt the call has started another child before it ends.
C29_KilledAttemptIsRetried ==
    \A n \in 1..MaxRetryAttempts :
        (KilledAttempt(calls[0], n) /\ Ended(calls[0]))
        => /\ calls[0].last_exception.type = "ToolExecutionError"
           /\ n < Budget(calls[0]) => calls[0].pm_calls > n

---------------------------------------------------------------------------
(* A reload_config that fails (specification SpecReload) *)

\* C30: a reload_config that raises leaves ToolWrapper.config and the
\* configuration cached by the ConfigManager as they were before the call,
\* so that the tool configuration a following execute_tool gets from the
\* manager is the previous one.
C30_FailedReloadKeepsConfig ==
    [][(reload_config /\ config_manager'.exc # NoException)
       => /\ config' = config
          /\ config_manager'.cached = config_manager.cached
          /\ \A name \in DOMAIN config.tools :
                 get_tool_config(loaded_manager(config_manager').returned, name)
                     = get_tool_config(loaded_manager(config_manager).returned,
                                       name)]_vars

====
